---- MODULE Spec2Model ----
(***************************************************************************)
(* Model of the Groq proxy gateway of the b.sure chatbot Grafana panel:    *)
(* the sliding-window RateLimiter and Datasource.handleGroqChat of the Go  *)
(* backend (pkg/plugin).                                                   *)
(*                                                                         *)
(* Time is counted in seconds; a time.Time is an integer number of seconds *)
(* read from a monotonic clock.                                            *)
(***************************************************************************)
EXTENDS Integers, Sequences, FiniteSets, TLC

\* ------------------------------------------------------------------------
\* Bounds of the model
\* ------------------------------------------------------------------------

\* last clock value of the limiter specification (clock ticks by 1 second)
MaxTime == 3

\* clock ticks of the gateway specifications (one minute each in Spec and
\* SpecValidator, half a minute each in SpecBurst)
GatewayTicks == 1
BurstTicks == 2

\* clock ticks of UpstreamTimeout seconds each in SpecInFlight
InFlightTicks == 2

\* submissions of one conversation and calls of submitQuestion waiting at
\* an await at the same time, in SpecChatbot
MaxSubmits == 3
MaxTasks == 2

\* fetches of the dashboard by one SimplePanel in SpecSimple
MaxFetches == 3

\* pieces in a string given to sanitizeDashboardData in SpecSanitizer
MaxFragments == 3

\* seconds of the clock in SpecReset
ResetTime == 2

\* instants retained by the limiter in SpecClients
MaxRetained == 11

\* requests handled per client key in SpecBurst
MaxBurst == 11

\* policy passed to isAllowed by the callers of the limiter specification
TestMaxRequests == 2
TestTimeWindow == 2

\* goroutines calling isAllowed concurrently, and the client keys they use
Procs == {"p1", "p2"}
ClientIDs == {"10.0.0.1:5001", "10.0.0.2"}

NoOwner == "none"
NoClient == ""

VARIABLES
    now,        \* the clock read by time.Now()
    mu,         \* RateLimiter.mu: the goroutine holding the lock, or NoOwner
    requests,   \* RateLimiter.requests: map clientID -> sequence of instants
    pc,         \* position of each goroutine calling isAllowed
    call,       \* clientID argument of each goroutine's call
    loc,        \* locals of isAllowed: now and validRequests
    ret,        \* value returned by each goroutine's last isAllowed call
    admitLog,   \* history: per clientID, the instants of all admitted calls
                \* since the limiter was last reset
    apiKey,     \* the GROQ_API_KEY environment variable ("" when unset)
    cur,        \* the request being handled or last handled, and its response
    serving,    \* the plugin process is running and accepts requests
    reqLog,     \* history: per client key, the instants of all requests handled
    panel,      \* the panel component in the browser: its React state, its
                \* pending promises and the network calls it has issued
    san,        \* a string and the results of sanitizing it once and twice
    enr         \* a fetched dashboard, the data of the panel and their enrichment

rlvars == <<now, mu, requests, pc, call, loc, ret, admitLog>>
gwvars == <<apiKey, cur, serving, reqLog>>
clvars == <<panel, san, enr>>
srvvars == <<now, mu, requests, pc, call, loc, ret, admitLog, apiKey, cur, serving, reqLog>>
vars == <<now, mu, requests, pc, call, loc, ret, admitLog, apiKey, cur, serving, reqLog,
          panel, san, enr>>

\* ------------------------------------------------------------------------
\* RateLimiter
\* ------------------------------------------------------------------------

\* rl.requests[clientID]: a missing key reads as the nil slice
Lookup(reqs, k) == IF k \in DOMAIN reqs THEN reqs[k] ELSE <<>>

\* rl.requests[clientID] = v
Store(reqs, k, v) == [x \in (DOMAIN reqs) \cup {k} |-> IF x = k THEN v ELSE reqs[x]]

\* a comparison that keeps an instant lying exactly on the cutoff
After_inclusive(t, u) == t >= u

\* reqTime.After(cutoff)
After(t, u) == t > u

\* now.Add(-timeWindow)
Cutoff(t, timeWindow) == t - timeWindow

\* the filter loop: the instants of reqs that lie after the cutoff, in order
ValidRequests(reqs, cutoff) == SelectSeq(reqs, LAMBDA t : After(t, cutoff))

\* a capacity test that admits one call too many
AtCapacity_off_by_one(valid, maxRequests) == Len(valid) > maxRequests

\* the capacity test: len(validRequests) >= maxRequests means rejection
AtCapacity(valid, maxRequests) == Len(valid) >= maxRequests

\* an admission that appends to the record as it was, unpruned
AdmittedRequests_unpruned(reqs, k, valid, t) == Store(reqs, k, Append(Lookup(reqs, k), t))

\* the map after an admitted call
AdmittedRequests(reqs, k, valid, t) == Store(reqs, k, Append(valid, t))

\* a rejection that has already appended the current instant
RejectedRequests_appends(reqs, k, valid, t) == Store(reqs, k, Append(valid, t))

\* the map after a rejected call (return false before any write)
RejectedRequests(reqs, k, valid, t) == reqs

\* a lock that never blocks
MutexFree_never_blocks(m) == TRUE

\* sync.Mutex: Lock() proceeds only when no goroutine holds the mutex
MutexFree(m) == m = NoOwner

NewRateLimiter == << >>

\* a goroutine calls isAllowed(k, maxRequests, timeWindow):
\* rl.mu.Lock(); now := time.Now(); the filter loop
LockAndFilter(p, k, timeWindow) ==
    /\ pc[p] = "idle"
    /\ MutexFree(mu)
    /\ mu' = p
    /\ call' = [call EXCEPT ![p] = k]
    /\ loc' = [loc EXCEPT ![p] =
                 [now |-> now,
                  valid |-> ValidRequests(Lookup(requests, k),
                                          Cutoff(now, timeWindow))]]
    /\ pc' = [pc EXCEPT ![p] = "locked"]
    /\ UNCHANGED <<now, requests, ret, admitLog>>
    /\ UNCHANGED gwvars
    /\ UNCHANGED clvars

\* the capacity test, the append and the deferred rl.mu.Unlock()
CheckAndAppend(p, maxRequests) ==
    /\ pc[p] = "locked"
    /\ IF AtCapacity(loc[p].valid, maxRequests)
          THEN /\ requests' = RejectedRequests(requests, call[p], loc[p].valid, loc[p].now)
               /\ ret' = [ret EXCEPT ![p] = FALSE]
               /\ UNCHANGED admitLog
          ELSE /\ requests' = AdmittedRequests(requests, call[p], loc[p].valid, loc[p].now)
               /\ ret' = [ret EXCEPT ![p] = TRUE]
               /\ admitLog' = [admitLog EXCEPT ![call[p]] = Append(@, loc[p].now)]
    /\ mu' = NoOwner
    /\ pc' = [pc EXCEPT ![p] = "returned"]
    /\ UNCHANGED <<now, call, loc>>
    /\ UNCHANGED gwvars
    /\ UNCHANGED clvars

\* the caller consumes the result; the goroutine is free for another call
Return(p) ==
    /\ pc[p] = "returned"
    /\ pc' = [pc EXCEPT ![p] = "idle"]
    /\ loc' = [loc EXCEPT ![p] = [now |-> 0, valid |-> <<>>]]
    /\ ret' = [ret EXCEPT ![p] = FALSE]
    /\ call' = [call EXCEPT ![p] = NoClient]
    /\ UNCHANGED <<now, mu, requests, admitLog>>
    /\ UNCHANGED gwvars
    /\ UNCHANGED clvars

\* a reset that leaves the records in place
ResetRequests_keeps(reqs) == reqs

\* rl.requests = make(map[string][]time.Time)
ResetRequests(reqs) == NewRateLimiter

\* a goroutine calls reset(): rl.mu.Lock(), the new map and the deferred
\* rl.mu.Unlock(); the history of admissions starts anew
Reset(p) ==
    /\ pc[p] = "idle"
    /\ MutexFree(mu)
    /\ requests' = ResetRequests(requests)
    /\ admitLog' = [k \in DOMAIN admitLog |-> <<>>]
    /\ pc' = [pc EXCEPT ![p] = "reset"]
    /\ UNCHANGED <<now, mu, call, loc, ret>>
    /\ UNCHANGED gwvars
    /\ UNCHANGED clvars

\* reset() has returned to its caller
ResetReturn(p) ==
    /\ pc[p] = "reset"
    /\ pc' = [pc EXCEPT ![p] = "idle"]
    /\ UNCHANGED <<now, mu, requests, call, loc, ret, admitLog>>
    /\ UNCHANGED gwvars
    /\ UNCHANGED clvars

\* the clock advances by d seconds, up to the bound
Tick(d, bound) ==
    /\ now + d <= bound
    /\ now' = now + d
    /\ UNCHANGED <<mu, requests, pc, call, loc, ret, admitLog>>
    /\ UNCHANGED gwvars
    /\ UNCHANGED clvars

\* ------------------------------------------------------------------------
\* Strings.  A Go string is a sequence of runs [ch, n]: n >= 1 copies of the
\* character ch; len() counts bytes.
\* ------------------------------------------------------------------------

Rep(c, n) == IF n = 0 THEN <<>> ELSE <<[ch |-> c, n |-> n]>>

\* bytes of the UTF-8 encoding of one character
ByteWidth(c) == IF c = "U+00E9" THEN 2 ELSE 1

RECURSIVE ByteLen(_)
\* len(s)
ByteLen(s) == IF s = <<>> THEN 0
              ELSE s[1].n * ByteWidth(s[1].ch) + ByteLen(Tail(s))

Letters == {"a", "b", "c", "d", "e", "f", "g", "h", "i", "j", "k", "l", "m",
            "n", "o", "p", "q", "r", "s", "t", "u", "v", "w", "x", "y", "z",
            "A", "B", "C", "D", "E", "F", "G", "H", "I", "J", "K", "L", "M",
            "N", "O", "P", "Q", "R", "S", "T", "U", "V", "W", "X", "Y", "Z"}
Digits == {"0", "1", "2", "3", "4", "5", "6", "7", "8", "9"}

\* a character class that also lets the path separator through
ModelNameClass_with_slash == Letters \cup Digits \cup {"-", ".", "/"}

\* the character class [a-zA-Z0-9\-\.]
ModelNameClass == Letters \cup Digits \cup {"-", "."}

\* modelNameRegex.MatchString(s) for ^[a-zA-Z0-9\-\.]+$
ModelNameRegexMatch(s) ==
    /\ s # <<>>
    /\ \A i \in 1..Len(s) : s[i].ch \in ModelNameClass

\* ------------------------------------------------------------------------
\* Request validation of handleGroqChat
\* ------------------------------------------------------------------------

Minute == 60
RateLimit == 10
MaxMessages == 100
MaxModelLen == 50
MaxContentLen == 10000
MaxBodyBytes == 1048576
UpstreamTimeout == 30

\* a method test that lets every method through
MethodAllowed_any(m) == TRUE

\* r.Method != http.MethodPost
MethodAllowed(m) == m = "POST"

\* contentType != "application/json"
ContentTypeAllowed(ct) == ct = "application/json"

\* clientIP: X-Forwarded-For when present, else r.RemoteAddr
ClientIP(r) == IF r.forwardedFor # "" THEN r.forwardedFor ELSE r.remoteAddr

\* a credential test that accepts the empty credential
CredentialMissing_never(k) == FALSE

\* apiKey == ""
CredentialMissing(k) == k = ""

\* bytes of one character inside a JSON string literal
JsonWidth(c) == IF c \in {"LF", "QUOTE"} THEN 2 ELSE ByteWidth(c)

RECURSIVE JsonLen(_)
\* bytes of the contents of the JSON string literal of s
JsonLen(s) == IF s = <<>> THEN 0
              ELSE s[1].n * JsonWidth(s[1].ch) + JsonLen(Tail(s))

\* bytes of a role name
RoleBytes(role) ==
    CASE role = "user" -> 4
      [] role = "system" -> 6
      [] role = "assistant" -> 9
      [] OTHER -> 6

RECURSIVE MessagesBytes(_)
\* bytes of the elements {"role":"..","content":".."} of the messages array
MessagesBytes(msgs) ==
    IF msgs = <<>> THEN 0
    ELSE msgs[1].n * (24 + RoleBytes(msgs[1].role) + JsonLen(msgs[1].content))
         + MessagesBytes(Tail(msgs))

RECURSIVE MessageCount(_)
\* len(reqBody.Messages); messages are runs [role, content, n]
MessageCount(msgs) == IF msgs = <<>> THEN 0
                      ELSE msgs[1].n + MessageCount(Tail(msgs))

\* bytes up to the end of the first JSON value of the body,
\* {"model":"..","messages":[..]} with its separating commas
ValueBytes(body) ==
    27 + JsonLen(body.model) + MessagesBytes(body.messages)
       + (IF body.messages = <<>> THEN 0 ELSE MessageCount(body.messages) - 1)

\* bytes of the whole body: the first JSON value and what follows it; a
\* body that is no JSON text has pad bytes
BodyBytes(body) == IF body.kind = "json" THEN ValueBytes(body) + body.pad
                   ELSE body.pad

\* json.NewDecoder(r.Body).Decode(&reqBody) returns no error: the body
\* starts with a JSON value that the decoder has read completely before
\* http.MaxBytesReader(w, r.Body, 1<<20) fails; Decode stops reading at the
\* end of that value
Decodes(body) == body.kind = "json" /\ ValueBytes(body) <= MaxBodyBytes

\* reqBody.Model == "" || len(reqBody.Model) > 50 || !modelNameRegex.MatchString(...)
InvalidModelName(m) ==
    \/ m = <<>>
    \/ ByteLen(m) > MaxModelLen
    \/ ~ModelNameRegexMatch(m)

\* a count test that already rejects a conversation of exactly the cap
TooManyMessages_at_cap(msgs) == MessageCount(msgs) >= MaxMessages

\* len(reqBody.Messages) > 100
TooManyMessages(msgs) == MessageCount(msgs) > MaxMessages

\* a role test that accepts every role
ValidRole_any(role) == TRUE

\* msg.Role is one of "user", "system", "assistant"
ValidRole(role) == role \in {"user", "system", "assistant"}

\* a length test that already rejects content of exactly the cap
ContentTooLong_at_cap(content) == ByteLen(content) >= MaxContentLen

\* len(msg.Content) > 10000
ContentTooLong(content) == ByteLen(content) > MaxContentLen

RECURSIVE MessagesError_role_first(_)
\* a loop that tests the role of a message before the length of its content
MessagesError_role_first(msgs) ==
    IF msgs = <<>> THEN "Forward"
    ELSE IF ~ValidRole(msgs[1].role) THEN "InvalidRole"
    ELSE IF ContentTooLong(msgs[1].content) THEN "ContentTooLong"
    ELSE MessagesError_role_first(Tail(msgs))

RECURSIVE MessagesError(_)
\* the loop over reqBody.Messages: the first failing check of the first
\* failing message, or "Forward" when every message passes
MessagesError(msgs) ==
    IF msgs = <<>> THEN "Forward"
    ELSE IF ContentTooLong(msgs[1].content) THEN "ContentTooLong"
    ELSE IF ~ValidRole(msgs[1].role) THEN "InvalidRole"
    ELSE MessagesError(Tail(msgs))

\* decoding and validation of the body, in the order of the code
BodyError(body) ==
    IF ~Decodes(body) THEN "InvalidBody"
    ELSE IF TooManyMessages(body.messages) THEN "TooManyMessages"
    ELSE IF InvalidModelName(body.model) THEN "InvalidModel"
    ELSE MessagesError(body.messages)

\* a handler that reads the credential before it asks the rate limiter
Outcome_credential_first(r, allowed, key) ==
    IF ~MethodAllowed(r.method) THEN "MethodNotAllowed"
    ELSE IF ~ContentTypeAllowed(r.contentType) THEN "InvalidContentType"
    ELSE IF CredentialMissing(key) THEN "ConfigError"
    ELSE IF ~allowed THEN "TooManyRequests"
    ELSE BodyError(r.body)

\* the path handleGroqChat takes up to the upstream call: the reason of the
\* first rejection, or "Forward"; allowed is the answer of isAllowed, which is
\* asked only when the method and content-type checks have passed
Outcome(r, allowed, key) ==
    IF ~MethodAllowed(r.method) THEN "MethodNotAllowed"
    ELSE IF ~ContentTypeAllowed(r.contentType) THEN "InvalidContentType"
    ELSE IF ~allowed THEN "TooManyRequests"
    ELSE IF CredentialMissing(key) THEN "ConfigError"
    ELSE BodyError(r.body)

\* a handler that asks the rate limiter on every path
LimiterCalled_on_every_path(reason) == TRUE

\* the rate limiter is reached on this path
LimiterCalled(reason) == reason \notin {"MethodNotAllowed", "InvalidContentType"}

\* status code of each http.Error
Status(reason) ==
    CASE reason = "MethodNotAllowed"   -> 405
      [] reason = "InvalidContentType" -> 400
      [] reason = "TooManyRequests"    -> 429
      [] reason = "ConfigError"        -> 500
      [] reason = "InvalidBody"        -> 400
      [] reason = "TooManyMessages"    -> 400
      [] reason = "InvalidModel"       -> 400
      [] reason = "ContentTooLong"     -> 400
      [] reason = "InvalidRole"        -> 400
      [] reason = "TransportError"     -> 500
      [] reason = "ReadError"          -> 500
      [] reason = "UpstreamStatus"     -> 502
      [] OTHER                         -> 0

\* message of each http.Error, as its sequence of words
Message(reason) ==
    CASE reason = "MethodNotAllowed"   -> <<"Method", "not", "allowed">>
      [] reason = "InvalidContentType" -> <<"Invalid", "Content-Type">>
      [] reason = "TooManyRequests"    -> <<"Too", "many", "requests">>
      [] reason = "ConfigError"        -> <<"Service", "configuration", "error">>
      [] reason = "InvalidBody"        -> <<"Invalid", "request", "body">>
      [] reason = "TooManyMessages"    -> <<"Too", "many", "messages", "in", "conversation">>
      [] reason = "InvalidModel"       -> <<"Invalid", "model", "name">>
      [] reason = "ContentTooLong"     -> <<"Message", "content", "too", "long">>
      [] reason = "InvalidRole"        -> <<"Invalid", "message", "role">>
      [] reason = "TransportError"     -> <<"Failed", "to", "call", "Groq", "API">>
      [] reason = "ReadError"          -> <<"Failed", "to", "read", "response">>
      [] reason = "UpstreamStatus"     -> <<"External", "API", "error", "occurred">>
      [] OTHER                         -> <<>>

\* an error message that quotes the credential it was handled with
ErrorBody_echoes_credential(reason, r, key) ==
    IF reason = "Forward" THEN <<>> ELSE Message(reason) \o <<key>>

\* the message passed to http.Error on the path of reason for request r
\* handled with credential key: a string literal on every path
ErrorBody(reason, r, key) == Message(reason)

\* Content-Type header that http.Error sets
ErrorContentType == "text/plain; charset=utf-8"

\* no error path of the handler ends the process (http.Error, then return)
Fatal(reason) == FALSE

\* ------------------------------------------------------------------------
\* The gateway: handleGroqChat on the global rate limiter
\* ------------------------------------------------------------------------

\* the address of the provider, which the gateway, and SimplePanel, post to
GroqURL == "https://api.groq.com/openai/v1/chat/completions"

NoBody == [kind |-> "garbage", model |-> <<>>, messages |-> <<>>, pad |-> 12]

\* a decoder that keeps every field of a message
DecodedMessages_every_field(messages) == messages

\* the messages as decoded into []struct{Role, Content}: a field that the
\* struct does not name is dropped
DecodedMessages(messages) ==
    [i \in 1..Len(messages) |->
        [role |-> messages[i].role, content |-> messages[i].content,
         n |-> messages[i].n]]

\* json.Marshal(reqBody) of the decoded body: the model and the messages
Marshal(body) ==
    [model |-> body.model, messages |-> DecodedMessages(body.messages)]

\* the request that client.Do sends: the marshalled body and the two headers
UpstreamCall(r, key) ==
    [url |-> GroqURL,
     contentType |-> "application/json",
     authorization |-> <<"Bearer ", key>>,
     body |-> Marshal(r.body)]

NoCall == [url |-> ""]

NoReply == [kind |-> "none", status |-> 0, body |-> <<>>]

NoRequest ==
    [phase |-> "none",
     req |-> [method |-> "GET", contentType |-> "", remoteAddr |-> "",
              forwardedFor |-> "", body |-> NoBody],
     at |-> 0, prior |-> 0, limited |-> FALSE, allowed |-> FALSE,
     cred |-> "", calls |-> 0, status |-> 0, body |-> <<>>,
     contentType |-> "", reply |-> NoReply, cancelled |-> FALSE,
     writes |-> 0, check |-> "", sent |-> NoCall]

\* number of instants of log strictly newer than t - timeWindow
NotAgedOut(log, t, timeWindow) ==
    Cardinality({i \in 1..Len(log) : log[i] > t - timeWindow})

\* handleGroqChat(w, r) up to its first response or to the upstream call;
\* the call of globalRateLimiter.isAllowed(clientIP, 10, time.Minute) is one
\* critical section and takes effect here as a whole
handleGroqChat(r) ==
    /\ serving
    /\ cur.phase # "upstream"
    /\ \E k \in {ClientIP(r)} :
       \E valid \in {ValidRequests(Lookup(requests, k), Cutoff(now, Minute))} :
       \E allowed \in {~AtCapacity(valid, RateLimit)} :
       \E reason \in {Outcome(r, allowed, apiKey)} :
          /\ requests' =
                 IF ~LimiterCalled(reason) THEN requests
                 ELSE IF allowed THEN AdmittedRequests(requests, k, valid, now)
                 ELSE RejectedRequests(requests, k, valid, now)
          /\ cur' = [phase |-> IF reason = "Forward" THEN "upstream" ELSE "responded",
                     req |-> r,
                     at |-> now,
                     prior |-> NotAgedOut(Lookup(requests, k), now, Minute),
                     limited |-> LimiterCalled(reason),
                     allowed |-> LimiterCalled(reason) /\ allowed,
                     cred |-> apiKey,
                     calls |-> IF reason = "Forward" THEN 1 ELSE 0,
                     status |-> Status(reason),
                     body |-> ErrorBody(reason, r, apiKey),
                     contentType |-> IF reason = "Forward" THEN ""
                                     ELSE ErrorContentType,
                     reply |-> NoReply,
                     cancelled |-> FALSE,
                     writes |-> IF reason = "Forward" THEN 0 ELSE 1,
                     check |-> IF reason = "Forward" THEN "" ELSE reason,
                     sent |-> IF reason = "Forward" THEN UpstreamCall(r, apiKey)
                              ELSE NoCall]
          /\ serving' = ~Fatal(reason)
    /\ UNCHANGED <<now, mu, pc, call, loc, ret, admitLog, apiKey>>
    /\ UNCHANGED clvars

\* the same, with the history of requests per client key recorded
handleAndLog(r, maxLog) ==
    /\ Len(reqLog[ClientIP(r)]) < maxLog
    /\ handleGroqChat(r)
    /\ reqLog' = [reqLog EXCEPT ![ClientIP(r)] = Append(@, now)]

\* the path of the handler after client.Do: a transport failure (timeout
\* included), a failure of io.ReadAll, a status other than 200, or success
UpstreamReason(reply) ==
    CASE reply.kind \in {"transport", "timeout"}  -> "TransportError"
      [] reply.kind \in {"read", "readtimeout"} -> "ReadError"
      [] reply.status # 200       -> "UpstreamStatus"
      [] OTHER                    -> "OK"

\* a relay that wraps the upstream body in an envelope of its own
SuccessBody_wrapped(reply) == <<"data">> \o reply.body

\* w.Write(respBody): the body written on success
SuccessBody(reply) == reply.body

\* an error response that passes the upstream body on
FailureBody_leaks(reason, reply) == Message(reason) \o reply.body

\* the body of http.Error after the upstream call: the fixed message of the
\* path taken
FailureBody(reason, reply) == Message(reason)

\* a handler that calls the upstream again after a failure
Reissued_on_failure(reason) ==
    IF reason \in {"TransportError", "UpstreamStatus"} THEN 1 ELSE 0

\* upstream calls issued after client.Do has returned: every path writes a
\* response and returns
Reissued(reason) == 0

\* the response the handler writes once the upstream call is over
Relay(c, reply) ==
    LET reason == UpstreamReason(reply)
    IN [c EXCEPT !.phase = IF Reissued(reason) > 0 THEN "upstream" ELSE "responded",
                 !.calls = @ + Reissued(reason),
                 !.status = IF reason = "OK" THEN 200 ELSE Status(reason),
                 !.body = IF reason = "OK" THEN SuccessBody(reply)
                          ELSE FailureBody(reason, reply),
                 !.contentType = IF reason = "OK" THEN "application/json"
                                 ELSE ErrorContentType,
                 !.reply = reply,
                 !.writes = IF Reissued(reason) > 0 THEN @ ELSE @ + 1,
                 !.check = reason]

\* client.Do and io.ReadAll return, and the handler writes its response
UpstreamReturn(reply) ==
    /\ cur.phase = "upstream"
    /\ cur' = Relay(cur, reply)
    /\ UNCHANGED <<now, mu, requests, pc, call, loc, ret, admitLog, apiKey, serving, reqLog>>
    /\ UNCHANGED clvars

\* a client without a timeout
HasTimeout_none == FALSE

\* the http.Client of the upstream call has a Timeout
HasTimeout == TRUE

\* the instant at which the Timeout of the client of request c expires
Deadline(c) == c.at + UpstreamTimeout

\* what client.Do or io.ReadAll returns when the Timeout expires, which
\* covers the exchange up to the end of the response body
TimeoutReplies ==
    { [kind |-> "timeout", status |-> 0, body |-> <<>>],
      [kind |-> "readtimeout", status |-> 200, body |-> <<>>] }

\* the Timeout of the client expires while the upstream call is in flight
ClientTimeout ==
    /\ HasTimeout
    /\ cur.phase = "upstream"
    /\ now >= Deadline(cur)
    /\ \E reply \in TimeoutReplies : cur' = Relay(cur, reply)
    /\ UNCHANGED <<now, mu, requests, pc, call, loc, ret, admitLog, apiKey, serving, reqLog>>
    /\ UNCHANGED clvars

\* the clock advances, but not past the instant at which a running Timeout
\* expires
TickInFlight(d, bound) ==
    /\ ~(HasTimeout /\ cur.phase = "upstream" /\ now + d > Deadline(cur))
    /\ Tick(d, bound)

\* the caller of the request in flight disconnects: r.Context() is done; the
\* upstream request was built by http.NewRequest without that context, so
\* nothing else changes
Disconnect ==
    /\ cur.phase = "upstream"
    /\ ~cur.cancelled
    /\ cur' = [cur EXCEPT !.cancelled = TRUE]
    /\ UNCHANGED <<now, mu, requests, pc, call, loc, ret, admitLog, apiKey, serving, reqLog>>
    /\ UNCHANGED clvars

\* the environment of the process: os.Setenv / os.Unsetenv of GROQ_API_KEY
Setenv(v) ==
    /\ apiKey # v
    /\ apiKey' = v
    /\ UNCHANGED <<now, mu, requests, pc, call, loc, ret, admitLog, cur, serving, reqLog>>
    /\ UNCHANGED clvars

\* ------------------------------------------------------------------------
\* Inputs
\* ------------------------------------------------------------------------

\* a string given character by character
Str(chars) == [i \in 1..Len(chars) |-> [ch |-> chars[i], n |-> 1]]

DefaultModel ==
    Str(<<"l", "l", "a", "m", "a", "-", "3", ".", "3", "-", "7", "0", "b">>)

ModelNames ==
    { <<>>,                                  \* empty
      DefaultModel,
      Rep("a", MaxModelLen),                 \* exactly at the cap
      Rep("a", MaxModelLen + 1),             \* one over the cap
      Rep("a", 3) \o Rep(" ", 1) \o Rep("b", 1),
      Rep("a", 3) \o Rep("/", 1) \o Rep("b", 1),
      Rep("a", 3) \o Rep("U+00E9", 1),
      Rep("a", 3) \o Rep("LF", 1),
      Rep("<", 1) \o Rep("b", 1) \o Rep(">", 1),
      Rep("a", 2) \o Rep("QUOTE", 1) }

Msg(role, content, n) == <<[role |-> role, content |-> content, n |-> n]>>

Hello == Str(<<"h", "e", "l", "l", "o">>)

MessageLists ==
    { Msg("user", Hello, 1),
      Msg("system", Hello, 1) \o Msg("user", Hello, MaxMessages - 1),
      Msg("user", Hello, MaxMessages + 1),
      Msg("user", Rep("a", MaxContentLen), 1) \o Msg("assistant", Hello, 1),
      Msg("user", Hello, 1) \o Msg("user", Rep("a", MaxContentLen + 1), 1),
      Msg("user", Hello, 1) \o Msg("hacker", Hello, 1),
      \* 5000 two-byte characters: 10000 bytes
      Msg("user", Rep("U+00E9", MaxContentLen \div 2), 1),
      \* 5000 two-byte characters and one more byte
      Msg("user", Rep("U+00E9", MaxContentLen \div 2) \o Rep("a", 1), 1),
      \* one message too many, each of them too long and of no known role
      Msg("hacker", Rep("a", MaxContentLen + 1), MaxMessages + 1) }

Json(model, messages) ==
    [kind |-> "json", model |-> model, messages |-> messages, pad |-> 0]

GoodBody == Json(DefaultModel, Msg("user", Hello, 1))

\* bodies of more than 1 MiB: one byte over the cap of no JSON text, a JSON
\* value that is itself longer than the cap, and a small JSON value followed
\* by 2 MiB of white space
OversizedBodies ==
    { [NoBody EXCEPT !.pad = MaxBodyBytes + 1],
      Json(DefaultModel, Msg("user", Rep("a", MaxBodyBytes), 1)),
      [GoodBody EXCEPT !.pad = 2 * MaxBodyBytes] }

Bodies ==
    {NoBody} \cup OversizedBodies
             \cup {Json(m, ms) : m \in ModelNames, ms \in MessageLists}

\* a valid body with fields that the gateway does not know: two at the top
\* and one in each message
ExtraFieldsBody ==
    [kind |-> "json", model |-> DefaultModel, pad |-> 0,
     temperature |-> 2, api_key |-> "gsk-other",
     messages |-> <<[role |-> "system", content |-> Hello, n |-> 1, name |-> "root"],
                    [role |-> "user", content |-> Hello, n |-> 2, name |-> "me"]>>]

MainBodies ==
    { NoBody,
      GoodBody,
      ExtraFieldsBody,
      Json(DefaultModel, Msg("user", Hello, MaxMessages + 1)),
      Json(<<>>, Msg("user", Hello, 1)),
      Json(DefaultModel, Msg("user", Rep("a", MaxContentLen + 1), 1)),
      Json(DefaultModel, Msg("hacker", Hello, 1)) }

\* bodies that violate several constraints at once
OrderBodies ==
    { NoBody,
      GoodBody,
      \* decoding, count, model name, content length and role
      Json(<<>>, Msg("hacker", Rep("a", MaxBodyBytes), MaxMessages + 1)),
      \* count, model name, content length and role
      Json(<<>>, Msg("hacker", Rep("a", MaxContentLen + 1), MaxMessages + 1)),
      \* model name, content length and role
      Json(<<>>, Msg("hacker", Rep("a", MaxContentLen + 1), 1)),
      \* content length and role of the same message
      Json(DefaultModel, Msg("hacker", Rep("a", MaxContentLen + 1), 1)),
      \* role of the first message, content length of the second
      Json(DefaultModel, Msg("hacker", Hello, 1)
                           \o Msg("user", Rep("a", MaxContentLen + 1), 1)),
      \* content length of the second message, role of the third
      Json(DefaultModel, Msg("user", Hello, 1)
                           \o Msg("user", Rep("a", MaxContentLen + 1), 1)
                           \o Msg("hacker", Hello, 1)) }

Methods == {"POST", "GET"}
ContentTypes == {"application/json", "text/plain"}
RemoteAddrs == {"10.0.0.1:5001"}
Credentials == {"", "gsk-secret"}

\* requests of every method and content type, of one client
MainRequests ==
    [method : Methods, contentType : ContentTypes, remoteAddr : RemoteAddrs,
     forwardedFor : {""}, body : MainBodies]

\* POST requests of one client with every body
ValidatorRequests ==
    [method : {"POST"}, contentType : {"application/json"},
     remoteAddr : RemoteAddrs, forwardedFor : {""}, body : Bodies]

\* requests of every method and content type whose bodies violate several
\* constraints
OrderRequests ==
    [method : Methods, contentType : ContentTypes, remoteAddr : RemoteAddrs,
     forwardedFor : {""}, body : OrderBodies]

\* requests of one client that are forwarded or rejected
InFlightRequests ==
    [method : Methods, contentType : {"application/json"},
     remoteAddr : RemoteAddrs, forwardedFor : {""}, body : {GoodBody, NoBody}]

\* well-formed requests of one client that differ in their method only
BurstRequests ==
    [method : Methods, contentType : {"application/json"},
     remoteAddr : RemoteAddrs, forwardedFor : {""}, body : {GoodBody}]

\* one address over two connections, with and without X-Forwarded-For
ClientAddrs == {"10.0.0.1:5001", "10.0.0.1:5002"}
ForwardedFors == {"", "10.0.0.2"}

\* requests of several clients: of a wrong method, of a wrong content type,
\* with an invalid body and with a valid one
ClientRequests ==
    { [method |-> k[1], contentType |-> k[2], remoteAddr |-> a,
       forwardedFor |-> f, body |-> k[3]] :
        k \in { <<"GET", "application/json", GoodBody>>,
                <<"POST", "text/plain", GoodBody>>,
                <<"POST", "application/json", NoBody>>,
                <<"POST", "application/json", GoodBody>> },
        a \in ClientAddrs, f \in ForwardedFors }

UpstreamReplies ==
    { [kind |-> "response", status |-> 200, body |-> <<"choices">>],
      [kind |-> "response", status |-> 500, body |-> <<"upstream", "detail">>],
      [kind |-> "response", status |-> 429, body |-> <<"rate", "limit", "reached">>],
      [kind |-> "transport", status |-> 0, body |-> <<>>],
      [kind |-> "read", status |-> 200, body |-> <<>>] }

\* ------------------------------------------------------------------------
\* The ChatbotPanel component (browser)
\* ------------------------------------------------------------------------

\* VALIDATION_LIMITS.MESSAGE_LENGTH
MESSAGE_LENGTH == 10000

\* UTF-16 code units of one character
Utf16Width(c) == IF c = "U+1F600" THEN 2 ELSE 1

RECURSIVE Utf16Len(_)
\* s.length
Utf16Len(s) == IF s = <<>> THEN 0
               ELSE s[1].n * Utf16Width(s[1].ch) + Utf16Len(Tail(s))

RECURSIVE Slice(_, _)
\* s.slice(0, k), for a cut that does not split a character
Slice(s, k) ==
    IF s = <<>> \/ k < Utf16Width(s[1].ch) THEN <<>>
    ELSE IF s[1].n * Utf16Width(s[1].ch) <= k
         THEN <<s[1]>> \o Slice(Tail(s), k - s[1].n * Utf16Width(s[1].ch))
         ELSE <<[ch |-> s[1].ch, n |-> k \div Utf16Width(s[1].ch)]>>

\* a character class that also lets the space through
UidClass_with_space == Letters \cup Digits \cup {"_", "-", " "}

\* the character class [a-zA-Z0-9_-]
UidClass == Letters \cup Digits \cup {"_", "-"}

\* dashboardUID && /^[a-zA-Z0-9_-]+$/.test(dashboardUID)
ValidDashboardUID(uid) ==
    /\ uid # <<>>
    /\ \A i \in 1..Len(uid) : uid[i].ch \in UidClass

\* elements that DOMPurify removes together with their content; each is
\* carried as one unit of a string
ActiveElements ==
    { "<script>alert(1)</script>", "<iframe src=x></iframe>",
      "<object data=x></object>", "<embed src=x>" }

\* DOMPurify.sanitize(content, ...).slice(0, MESSAGE_LENGTH)
sanitizeMessageContent(content) ==
    Slice(SelectSeq(content, LAMBDA u : u.ch \notin ActiveElements), MESSAGE_LENGTH)

\* a role outside the three known ones becomes user
validRole(role) ==
    IF role \in {"user", "system", "assistant"} THEN role ELSE "user"

\* validateMessages(messages)
validateMessages(messages) ==
    [i \in 1..Len(messages) |->
        [role |-> validRole(messages[i].role),
         content |-> sanitizeMessageContent(messages[i].content),
         n |-> messages[i].n]]

\* a length test that also rejects a message of exactly the limit
MessageTooLong_at_cap(trimmedInput) == Utf16Len(trimmedInput) >= MESSAGE_LENGTH

\* trimmedInput.length > VALIDATION_LIMITS.MESSAGE_LENGTH
MessageTooLong(trimmedInput) == Utf16Len(trimmedInput) > MESSAGE_LENGTH

\* inputValue.trim(): an input value is its text and the white space around it
Trim(v) == v.text

EmptyInput == [lead |-> 0, text |-> <<>>]

\* the system message built on the first turn from options.initialChatMessage
\* and the enriched dashboard data
SystemMessage ==
    [role |-> "system",
     content |-> Str(<<"You are a helpful assistant.",
                       " This is the data on the dashboard: ", "[]", ".">>),
     n |-> 1]

\* the assistant messages the component writes itself
TooLongMessage ==
    [role |-> "assistant",
     content |-> Str(<<"Your message is too long.",
                       " Please keep it under 10000 characters.">>),
     n |-> 1]
FailedMessage ==
    [role |-> "assistant",
     content |-> Str(<<"Failed to process your question. Please try again.">>),
     n |-> 1]
ApiErrorMessage ==
    [role |-> "assistant",
     content |-> Str(<<"Sorry, I encountered an error processing your request.",
                       " Please ensure GROQ_API_KEY environment variable is set",
                       " on the Grafana server.">>),
     n |-> 1]

\* response.data.choices[0].message of a successful proxy call
AnswerMessage ==
    [role |-> "assistant", content |-> Str(<<"Response">>), n |-> 1]

\* the resource of the plugin backend that the component posts to
ProxyURL == "/api/plugins/bsure-chatbot-panel/resources/groq-chat"

\* the component right after its first render
NewChatbotPanel(uid) ==
    [component  |-> "ChatbotPanel",
     uid        |-> uid,        \* data.request?.dashboardUID ?? ''
     options    |-> [initialChatMessage |-> "You are a helpful assistant.",
                     llmUsed |-> "llama-3.3-70b-versatile"],
     chat       |-> <<>>,       \* useState<Message[]>([])
     input      |-> EmptyInput, \* useState('')
     isLoading  |-> FALSE,      \* useState(false)
     tasks      |-> <<>>,       \* calls of submitQuestion waiting at an await
     fetches    |-> <<>>,       \* history: ids the dashboard endpoint was fetched for
     proxyCalls |-> 0,          \* history: number of calls of the proxy
     lastCall   |-> [url |-> "", auth |-> "", messages |-> <<>>],
     submits    |-> 0,          \* history: submissions of a non-blank input
     mounted    |-> TRUE,       \* the cleanup of the effects has not run
     abortControllerRef |-> 0,  \* useRef<AbortController | null>(null)
     aborted    |-> {}]         \* controllers on which abort() was called

\* the message of the catch block of fetchGroqData for an AbortError
CancelledMessage ==
    [role |-> "assistant", content |-> Str(<<"Request was cancelled">>), n |-> 1]

\* the fetch of a task has been cancelled: the signal given to it belongs to
\* a controller on which abort() was called; signal 0 is no signal
Cancelled(p, task) == task.signal # 0 /\ task.signal \in p.aborted

\* the state of the hooks after a step of an async function: the setters of
\* useState change nothing once the component is unmounted, a ref is an
\* object that stays writable
Rendered(before, after) ==
    IF before.mounted THEN after
    ELSE [after EXCEPT !.chat = before.chat,
                       !.isLoading = before.isLoading,
                       !.input = before.input]

\* the gateway answers the payload with 200: it takes the path "Forward"
GatewayAccepts(payload) == BodyError(Json(DefaultModel, payload)) = "Forward"

\* removal of element i of a sequence
Without(seq, i) == SubSeq(seq, 1, i - 1) \o SubSeq(seq, i + 1, Len(seq))

\* the value of isLoading while submitQuestion awaits extractAndEnrichData:
\* setIsLoading(true) is called in fetchGroqData only
LoadingDuringEnrichment == FALSE

\* fetchGroqData(messages) up to its await, called by the task at index i:
\* the messages are validated, isLoading is set and the proxy is called
\* a new AbortController, numbered by the calls of the proxy, is stored in
\* the ref; the options of the fetch are url, method and data, without signal
fetchGroqData(p, messages, i) ==
    [p EXCEPT !.isLoading = TRUE,
              !.abortControllerRef = p.proxyCalls + 1,
              !.proxyCalls = @ + 1,
              !.lastCall = [url |-> ProxyURL, auth |-> "",
                            messages |-> validateMessages(messages)],
              !.tasks[i] = [stage |-> "proxy", user |-> @.user,
                            payload |-> validateMessages(messages),
                            calls |-> @.calls + 1,
                            controller |-> p.proxyCalls + 1,
                            signal |-> 0]]

\* the user changes the text of the input, which is disabled while isLoading
Type(v) ==
    /\ panel.component = "ChatbotPanel"
    /\ panel.mounted
    /\ ~panel.isLoading
    /\ panel.input # v
    /\ panel' = [panel EXCEPT !.input = v]
    /\ UNCHANGED srvvars
    /\ UNCHANGED <<san, enr>>

\* a click on Send or Enter in the input calls submitQuestion, which runs up
\* to its first await; both are disabled while isLoading, and the button
\* also while the input is blank
submitQuestion(via, maxSubmits, maxTasks) ==
    /\ panel.component = "ChatbotPanel"
    /\ panel.mounted
    /\ ~panel.isLoading
    /\ via = "click" => Trim(panel.input) # <<>>
    /\ panel.submits < maxSubmits
    /\ Len(panel.tasks) < maxTasks
    /\ LET trimmedInput == Trim(panel.input)
           userMessage == [role |-> "user", content |-> trimmedInput, n |-> 1]
           task == [stage |-> "enrich", user |-> userMessage,
                    payload |-> <<>>, calls |-> 0,
                    controller |-> 0, signal |-> 0]
           started == [panel EXCEPT !.submits = @ + 1]
       IN panel' =
            IF trimmedInput = <<>> THEN panel
            ELSE IF MessageTooLong(trimmedInput)
                THEN [started EXCEPT !.chat = Append(@, TooLongMessage)]
            ELSE IF Len(panel.chat) = 0
                THEN IF ~ValidDashboardUID(panel.uid)
                     THEN [started EXCEPT !.chat = Append(@, FailedMessage),
                                          !.input = EmptyInput]
                     ELSE [started EXCEPT !.fetches = Append(@, panel.uid),
                                          !.isLoading = LoadingDuringEnrichment,
                                          !.tasks = Append(@, task)]
            ELSE fetchGroqData(
                     [started EXCEPT !.chat = panel.chat \o <<userMessage>>,
                                     !.tasks = Append(@, task)],
                     panel.chat \o <<userMessage>>,
                     Len(panel.tasks) + 1)
    /\ UNCHANGED srvvars
    /\ UNCHANGED <<san, enr>>

\* the dashboard fetch of the task at index i settles: on success the chat is
\* replaced by the system message and the user message and the proxy is
\* called; on failure the catch block of submitQuestion appends its message
EnrichSettles(i, ok) ==
    /\ panel.component = "ChatbotPanel"
    /\ i \in 1..Len(panel.tasks)
    /\ panel.tasks[i].stage = "enrich"
    /\ LET initialMessages == <<SystemMessage, panel.tasks[i].user>>
       IN panel' = Rendered(panel,
            IF ok
            THEN fetchGroqData([panel EXCEPT !.chat = initialMessages],
                               initialMessages, i)
            ELSE [panel EXCEPT !.chat = Append(@, FailedMessage),
                               !.isLoading = IF LoadingDuringEnrichment
                                             THEN FALSE ELSE @,
                               !.input = EmptyInput,
                               !.tasks = Without(@, i)])
    /\ UNCHANGED srvvars
    /\ UNCHANGED <<san, enr>>

\* the proxy call of the task at index i settles: the answer, or the error
\* message of the catch block of fetchGroqData, is appended, isLoading is
\* cleared, the ref is set to null and submitQuestion ends by clearing the
\* input; the call succeeds only with a payload that the gateway accepts and
\* only if its fetch was not cancelled
ProxySettles(i, ok) ==
    /\ panel.component = "ChatbotPanel"
    /\ i \in 1..Len(panel.tasks)
    /\ panel.tasks[i].stage = "proxy"
    /\ ok => GatewayAccepts(panel.tasks[i].payload)
    /\ ok => ~Cancelled(panel, panel.tasks[i])
    /\ panel' = Rendered(panel, [panel EXCEPT
                   !.chat = Append(@, IF ok THEN AnswerMessage
                                      ELSE IF Cancelled(panel, panel.tasks[i])
                                           THEN CancelledMessage
                                      ELSE ApiErrorMessage),
                   !.isLoading = FALSE,
                   !.abortControllerRef = 0,
                   !.input = EmptyInput,
                   !.tasks = Without(@, i)])
    /\ UNCHANGED srvvars
    /\ UNCHANGED <<san, enr>>

\* the component is unmounted: the cleanup of its effect calls abort() on the
\* controller that the ref holds, if it holds one
Unmount ==
    /\ panel.component = "ChatbotPanel"
    /\ panel.mounted
    /\ panel' = [panel EXCEPT
                   !.mounted = FALSE,
                   !.aborted = IF panel.abortControllerRef # 0
                               THEN @ \cup {panel.abortControllerRef} ELSE @]
    /\ UNCHANGED srvvars
    /\ UNCHANGED <<san, enr>>

\* dashboard ids of the props of the component
DashboardUIDs ==
    { <<>>,
      Str(<<"v", "a", "l", "i", "d", "_", "u", "i", "d", "-", "1", "2", "3">>),
      Str(<<"i", "n", "v", "a", "l", "i", "d", "@", "u", "i", "d", "!">>),
      Str(<<"u", "i", "d", " ", "w", "i", "t", "h", " ", "s", "p", "a", "c", "e", "s">>),
      Str(<<"u", "i", "d", "<", "s", "c", "r", "i", "p", "t", ">">>) }

\* texts typed into the input
InputValues ==
    { [lead |-> 3, text |-> <<>>],
      [lead |-> 0, text |-> Hello],
      [lead |-> 1, text |-> Rep("a", MESSAGE_LENGTH)],
      [lead |-> 0, text |-> Rep("a", MESSAGE_LENGTH + 1)],
      [lead |-> 0, text |-> Str(<<"<script>alert(1)</script>", "h", "i">>)],
      [lead |-> 0, text |-> Rep("U+00E9", MESSAGE_LENGTH \div 2 + 1)] }

\* ------------------------------------------------------------------------
\* The SimplePanel component, which module.ts registers as the panel
\* ------------------------------------------------------------------------

\* the paths of the options that module.ts adds to the panel editor
OptionPaths == {"groqApiKey", "initialChatMessage", "llmUsed"}

\* the component right after its first render and the first run of its
\* effect, which fetches the dashboard
NewSimplePanel(uid) ==
    [component  |-> "SimplePanel",
     uid        |-> uid,
     options    |-> [o \in OptionPaths |->
                       CASE o = "groqApiKey" -> "gsk-browser"
                         [] o = "initialChatMessage" -> "You are a helpful assistant."
                         [] OTHER -> "llama-3.3-70b-versatile"],
     chat       |-> <<>>,
     input      |-> EmptyInput,
     isLoading  |-> FALSE,
     tasks      |-> <<>>,
     fetches    |-> <<uid>>,
     proxyCalls |-> 0,
     lastCall   |-> [url |-> "", auth |-> "", messages |-> <<>>],
     submits    |-> 0]

\* fetchGroqData(messages) of SimplePanel up to its await: a fetch of the
\* provider with the key of the panel options in its Authorization header
simpleFetchGroqData(p, messages) ==
    [p EXCEPT !.proxyCalls = @ + 1,
              !.lastCall = [url |-> GroqURL, auth |-> p.options["groqApiKey"],
                            messages |-> messages],
              !.tasks = Append(@, [stage |-> "groq", user |-> messages[Len(messages)],
                                   payload |-> messages, calls |-> 1]),
              !.input = EmptyInput]

\* the panel data changes and the effect fetches the dashboard again
SimpleEffect(maxFetches) ==
    /\ panel.component = "SimplePanel"
    /\ Len(panel.fetches) < maxFetches
    /\ panel' = [panel EXCEPT !.fetches = Append(@, panel.uid)]
    /\ UNCHANGED srvvars
    /\ UNCHANGED <<san, enr>>

\* the user changes the text of the input
SimpleType(v) ==
    /\ panel.component = "SimplePanel"
    /\ panel.input # v
    /\ panel' = [panel EXCEPT !.input = v]
    /\ UNCHANGED srvvars
    /\ UNCHANGED <<san, enr>>

\* a click on Send calls submitQuestion of SimplePanel, which runs up to its
\* first await
simpleSubmitQuestion(maxSubmits, maxTasks, maxFetches) ==
    /\ panel.component = "SimplePanel"
    /\ panel.submits < maxSubmits
    /\ Len(panel.tasks) < maxTasks
    /\ Len(panel.chat) = 0 => Len(panel.fetches) < maxFetches
    /\ LET userMessage == [role |-> "user", content |-> panel.input.text, n |-> 1]
           started == [panel EXCEPT !.submits = @ + 1]
       IN panel' =
            IF Len(panel.chat) = 0
            THEN [started EXCEPT
                    !.fetches = Append(@, panel.uid),
                    !.tasks = Append(@, [stage |-> "enrich", user |-> userMessage,
                                         payload |-> <<>>, calls |-> 0])]
            ELSE simpleFetchGroqData(
                     [started EXCEPT !.chat = panel.chat \o <<userMessage>>],
                     panel.chat \o <<userMessage>>)
    /\ UNCHANGED srvvars
    /\ UNCHANGED <<san, enr>>

\* a promise of SimplePanel settles: after the dashboard fetch the chat is set
\* and the provider is called; after the call of the provider its message is
\* appended; a rejection is handled nowhere and changes nothing
SimpleSettles(i, ok) ==
    /\ panel.component = "SimplePanel"
    /\ i \in 1..Len(panel.tasks)
    /\ LET t == panel.tasks[i]
           rest == [panel EXCEPT !.tasks = Without(@, i)]
           initialMessages == <<SystemMessage, t.user>>
       IN panel' =
            IF ~ok THEN rest
            ELSE IF t.stage = "enrich"
                 THEN simpleFetchGroqData([rest EXCEPT !.chat = initialMessages],
                                          initialMessages)
            ELSE [rest EXCEPT !.chat = Append(@, AnswerMessage)]
    /\ UNCHANGED srvvars
    /\ UNCHANGED <<san, enr>>

\* dashboard ids and input texts of SimplePanel, which tests neither
SimpleUIDs ==
    { Str(<<"v", "a", "l", "i", "d", "_", "u", "i", "d", "-", "1", "2", "3">>),
      Str(<<"i", "n", "v", "a", "l", "i", "d", "@", "u", "i", "d", "!">>) }
SimpleInputs == { EmptyInput, [lead |-> 0, text |-> Hello] }

\* ------------------------------------------------------------------------
\* The sanitizers of ChatbotPanel; sanitizeDashboardData works on a string
\* as the sequence of its characters
\* ------------------------------------------------------------------------

\* VALIDATION_LIMITS.STRING_LENGTH
STRING_LENGTH == 1000

LowerCase == <<"a", "b", "c", "d", "e", "f", "g", "h", "i", "j", "k", "l", "m",
               "n", "o", "p", "q", "r", "s", "t", "u", "v", "w", "x", "y", "z">>
UpperCase == <<"A", "B", "C", "D", "E", "F", "G", "H", "I", "J", "K", "L", "M",
               "N", "O", "P", "Q", "R", "S", "T", "U", "V", "W", "X", "Y", "Z">>

\* the flag i of a regular expression: letters are compared in lower case
ToLower(c) ==
    IF \E k \in 1..26 : UpperCase[k] = c
    THEN LowerCase[CHOOSE k \in 1..26 : UpperCase[k] = c]
    ELSE c

\* the least element of a non-empty set of numbers
Least(S) == CHOOSE x \in S : \A y \in S : x <= y

\* the literal w, given in lower case, stands at index i of s
LiteralAt(s, i, w) ==
    /\ i >= 1
    /\ i + Len(w) - 1 <= Len(s)
    /\ \A k \in 1..Len(w) : ToLower(s[i + k - 1]) = w[k]

\* the index of the first occurrence of w at or after index i, 0 for none
IndexOf(s, i, w) ==
    LET S == {j \in i..Len(s) : LiteralAt(s, j, w)}
    IN IF S = {} THEN 0 ELSE Least(S)

\* the first index at or after i whose character is outside the class
RunEnd(s, i, class) ==
    Least({k \in i..(Len(s) + 1) : k = Len(s) + 1 \/ s[k] \notin class})

\* the classes \w and \s
WordChars == Letters \cup Digits \cup {"_"}
WhiteSpace == {" ", "\t", "\n", "\r"}

ScriptOpen == <<"<", "s", "c", "r", "i", "p", "t">>
ScriptClose == <<"<", "/", "s", "c", "r", "i", "p", "t", ">">>
ScriptName == <<"s", "c", "r", "i", "p", "t">>
JavascriptColon == <<"j", "a", "v", "a", "s", "c", "r", "i", "p", "t", ":">>

RECURSIVE RemoveScriptElements(_)
\* .replace(/<script[\s\S]*?<\/script>/gi, ''): from the first "<script"
\* to the first "</script>" behind it, again and again behind each match
RemoveScriptElements(s) ==
    LET i == IndexOf(s, 1, ScriptOpen)
        j == IF i = 0 THEN 0 ELSE IndexOf(s, i + Len(ScriptOpen), ScriptClose)
    IN IF j = 0 THEN s
       ELSE SubSeq(s, 1, i - 1)
            \o RemoveScriptElements(SubSeq(s, j + Len(ScriptClose), Len(s)))

RECURSIVE RemoveScriptTags(_)
\* .replace(/<[^>]*script[^>]*>/gi, ''): from a "<" to the first ">" behind
\* it, when "script" stands between the two
RemoveScriptTags(s) ==
    LET Close(i) == IndexOf(s, i + 1, <<">">>)
        S == {i \in 1..Len(s) :
                /\ s[i] = "<"
                /\ Close(i) # 0
                /\ \E k \in (i + 1)..(Close(i) - Len(ScriptName)) :
                       LiteralAt(s, k, ScriptName)}
    IN IF S = {} THEN s
       ELSE SubSeq(s, 1, Least(S) - 1)
            \o RemoveScriptTags(SubSeq(s, Close(Least(S)) + 1, Len(s)))

RECURSIVE RemoveJavascript(_)
\* .replace(/javascript:/gi, '')
RemoveJavascript(s) ==
    LET i == IndexOf(s, 1, JavascriptColon)
    IN IF i = 0 THEN s
       ELSE SubSeq(s, 1, i - 1)
            \o RemoveJavascript(SubSeq(s, i + Len(JavascriptColon), Len(s)))

\* the index of the "=" that ends a match of on\w+\s*= at index i, 0 for
\* none: "on", the longest run of word characters, which is not empty, the
\* white space behind it, and "="
HandlerEnd(s, i) ==
    IF ~LiteralAt(s, i, <<"o", "n">>) THEN 0
    ELSE LET a == RunEnd(s, i + 2, WordChars)
             b == RunEnd(s, a, WhiteSpace)
         IN IF a > i + 2 /\ b <= Len(s) /\ s[b] = "=" THEN b ELSE 0

RECURSIVE RemoveHandlers(_)
\* .replace(/on\w+\s*=/gi, '')
RemoveHandlers(s) ==
    LET S == {i \in 1..Len(s) : HandlerEnd(s, i) # 0}
    IN IF S = {} THEN s
       ELSE SubSeq(s, 1, Least(S) - 1)
            \o RemoveHandlers(SubSeq(s, HandlerEnd(s, Least(S)) + 1, Len(s)))

RECURSIVE RemoveTags(_)
\* .replace(/<\s*\/?[^>]*>/g, ''): from a "<" to the first ">" behind it
RemoveTags(s) ==
    LET Close(i) == IndexOf(s, i + 1, <<">">>)
        S == {i \in 1..Len(s) : s[i] = "<" /\ Close(i) # 0}
    IN IF S = {} THEN s
       ELSE SubSeq(s, 1, Least(S) - 1)
            \o RemoveTags(SubSeq(s, Close(Least(S)) + 1, Len(s)))

\* .slice(0, k) of a sequence of characters
Prefix(s, k) == SubSeq(s, 1, IF Len(s) < k THEN Len(s) ELSE k)

\* sanitizeDashboardData(data) for a string
sanitizeDashboardData(data) ==
    Prefix(RemoveTags(RemoveHandlers(RemoveJavascript(
               RemoveScriptTags(RemoveScriptElements(data))))), STRING_LENGTH)

\* pieces of the strings of a dashboard
DashboardFragments ==
    { <<"<", "s", "c", "r", "i", "p", "t", ">">>,
      ScriptClose,
      ScriptOpen,
      <<"j", "a", "v", "a">>,
      <<"s", "c", "r", "i", "p", "t", ":">>,
      JavascriptColon,
      <<"o", "n">>,
      <<"c", "l", "i", "c", "k", "=">>,
      <<"<", "b", ">">>,
      <<"x">>,
      <<" ">>,
      <<"<", "I", "F", "R", "A", "M", "E", ">">> }

RECURSIVE Concats(_)
\* the strings made of at most n pieces
Concats(n) ==
    IF n = 0 THEN {<<>>}
    ELSE Concats(n - 1) \cup {c \o f : c \in Concats(n - 1), f \in DashboardFragments}

\* the strings given to sanitizeDashboardData: strings of at most
\* MaxFragments pieces, and strings that reach STRING_LENGTH
DashboardStrings ==
    Concats(MaxFragments)
        \cup {[i \in 1..(STRING_LENGTH - 1) |-> "a"] \o f : f \in DashboardFragments}

\* the contents given to sanitizeMessageContent: the texts of the input,
\* contents with an active element, and one that reaches MESSAGE_LENGTH
MessageStrings ==
    {v.text : v \in InputValues}
        \cup {Str(<<"s", "c", "r", e, "i", "p", "t">>) : e \in ActiveElements}
        \cup {Str(<<e, "h", "i">>) : e \in ActiveElements}
        \cup {Rep("a", MESSAGE_LENGTH - 1) \o Str(<<"<b>", "c", "</b>">>)}

\* a sanitizer is applied to the string at hand: to the input first, to its
\* own result then
Sanitize(pass) ==
    /\ san.stage \in {"input", "once"}
    /\ san.pass = pass
    /\ LET f(x) == IF pass = "dashboard" THEN sanitizeDashboardData(x)
                   ELSE sanitizeMessageContent(x)
       IN san' = IF san.stage = "input"
                 THEN [san EXCEPT !.stage = "once", !.once = f(san.input)]
                 ELSE [san EXCEPT !.stage = "twice", !.twice = f(san.once)]
    /\ UNCHANGED srvvars
    /\ UNCHANGED <<panel, enr>>

\* ------------------------------------------------------------------------
\* The enrichment of ChatbotPanel. A value of the fetched JSON is its type
\* and its content; a string is the sequence of its characters
\* ------------------------------------------------------------------------

\* VALIDATION_LIMITS
DESCRIPTION_LENGTH == 500
TITLE_LENGTH == 100
TYPE_LENGTH == 50
ARRAY_SIZE == 100
SERIES_LIMIT == 10
FIELDS_LIMIT == 20
VALUES_LIMIT == 100

Obj(f) == [t |-> "object", v |-> f]
Arr(a) == [t |-> "array", v |-> a]
Txt(s) == [t |-> "string", v |-> s]
Num(n) == [t |-> "number", v |-> n]

\* the properties of an object that sanitizeDashboardData keeps
SafeProps == {"title", "description", "type", "id", "name", "values"}

RECURSIVE sanitizeDashboardValue(_)
\* sanitizeDashboardData(data) for a value of any type: a string is stripped
\* and cut, an array is cut and sanitized item by item, an object keeps its
\* safe properties, sanitized, and anything else is returned as it is
sanitizeDashboardValue(data) ==
    CASE data.t = "string" -> Txt(sanitizeDashboardData(data.v))
      [] data.t = "array" ->
           Arr([i \in 1..Len(Prefix(data.v, ARRAY_SIZE)) |->
                   sanitizeDashboardValue(data.v[i])])
      [] data.t = "object" ->
           Obj([k \in (DOMAIN data.v) \cap SafeProps |->
                   sanitizeDashboardValue(data.v[k])])
      [] OTHER -> data

\* dashboardData?.dashboard?.panels is there
HasPanels(dashboardData) ==
    /\ dashboardData.t = "object"
    /\ "dashboard" \in DOMAIN dashboardData.v
    /\ dashboardData.v["dashboard"].t = "object"
    /\ "panels" \in DOMAIN dashboardData.v["dashboard"].v

\* panel.title ?? '', and the like
TextOr(item, key) == IF key \in DOMAIN item.v THEN item.v[key].v ELSE <<>>

\* a filter that lets every panel through
KeepsPanel_any(item, currentPanelId) == TRUE

\* panel && panel.id !== currentPanelId
KeepsPanel(item, currentPanelId) == item.v["id"].v # currentPanelId

\* extractPanelMetadata(dashboardData, currentPanelId)
extractPanelMetadata(dashboardData, currentPanelId) ==
    IF ~HasPanels(dashboardData) THEN <<>>
    ELSE LET kept == SelectSeq(dashboardData.v["dashboard"].v["panels"].v,
                               LAMBDA item : KeepsPanel(item, currentPanelId))
         IN [i \in 1..Len(kept) |->
               [id |-> kept[i].v["id"].v,
                description |-> Prefix(TextOr(kept[i], "description"), DESCRIPTION_LENGTH),
                title |-> Prefix(TextOr(kept[i], "title"), TITLE_LENGTH),
                type |-> Prefix(TextOr(kept[i], "type"), TYPE_LENGTH)]]

\* the summary used when there is no metadata at all
UnknownSummary ==
    [id |-> 0, title |-> <<"U", "n", "k", "n", "o", "w", "n">>,
     description |-> <<>>,
     type |-> <<"u", "n", "k", "n", "o", "w", "n">>]

\* panelMetadata.find(item => item.id === panel.meta?.custom?.panelId)
\*   || panelMetadata[0] || { id: 0, title: 'Unknown', ... }
\* where the panelId of a series is a sequence of no or one number
FindMetadata(panelMetadata, panelId) ==
    LET S == {i \in 1..Len(panelMetadata) : panelId = <<panelMetadata[i].id>>}
    IN IF S # {} THEN panelMetadata[Least(S)]
       ELSE IF panelMetadata # <<>> THEN panelMetadata[1]
       ELSE UnknownSummary

\* a field that keeps all its values
FieldValues_uncut(field) == field.values

\* Array.isArray(field.values) ? field.values.slice(0, VALUES_LIMIT) : []
FieldValues(field) == Prefix(field.values, VALUES_LIMIT)

\* a series is skipped when it has no meta or its fields are no array
SeriesKept(series) == series.hasMeta /\ series.hasFields

\* enrichPanelData(panelData, panelMetadata)
enrichPanelData(panelData, panelMetadata) ==
    LET kept == SelectSeq(Prefix(panelData.series, SERIES_LIMIT), SeriesKept)
    IN [i \in 1..Len(kept) |->
          LET metadata == FindMetadata(panelMetadata, kept[i].panelId)
              fields == Prefix(kept[i].fields, FIELDS_LIMIT)
          IN [id |-> metadata.id,
              title |-> metadata.title,
              description |-> metadata.description,
              type |-> metadata.type,
              data |-> [j \in 1..Len(fields) |->
                          [name |-> Prefix(fields[j].name, TITLE_LENGTH),
                           type |-> Prefix(fields[j].type, TYPE_LENGTH),
                           values |-> FieldValues(fields[j])]]]]

\* extractAndEnrichData(dashboardId, currentPanelId, data) once the
\* dashboard has been fetched
extractAndEnrichData(dashboardData, currentPanelId, data) ==
    enrichPanelData(data,
        extractPanelMetadata(sanitizeDashboardValue(dashboardData), currentPanelId))

\* a string of n characters
Long(n) == [i \in 1..n |-> "a"]

\* a panel of a dashboard, with and without a description
PanelObject(id, title, description, type) ==
    Obj([id |-> Num(id), title |-> Txt(title),
         description |-> Txt(description), type |-> Txt(type)])
BarePanelObject(id, title, type) ==
    Obj([id |-> Num(id), title |-> Txt(title), type |-> Txt(type)])

\* the answer of /api/dashboards/uid/<id> for a dashboard of these panels
DashboardOf(panels) ==
    Obj([meta |-> Obj([slug |-> Txt(<<"d">>)]),
         dashboard |-> Obj([title |-> Txt(<<"d">>), panels |-> Arr(panels)])])

ChatPanelObject ==
    PanelObject(1, <<"C", "h", "a", "t">>, <<>>, <<"c", "h", "a", "t">>)
CpuPanelObject ==
    PanelObject(2, <<"C", "P", "U">>, <<"l", "o", "a", "d">>, <<"g", "r", "a", "p", "h">>)
MemoryPanelObject ==
    PanelObject(3, <<"M", "e", "m">>, <<"<", "b", ">", "u", "s", "e", "d">>, <<"s", "t", "a", "t">>)

\* the dashboards fetched: the two of the tests, one with the panel of the
\* chat among others, one whose texts exceed the limits by one character,
\* and an answer without a dashboard
Dashboards ==
    { DashboardOf(<<>>),
      DashboardOf(<<BarePanelObject(2, <<"O", "t", "h", "e", "r", " ", "P", "a", "n", "e", "l">>, <<"g", "r", "a", "p", "h">>)>>),
      DashboardOf(<<ChatPanelObject, CpuPanelObject, MemoryPanelObject>>),
      DashboardOf(<<PanelObject(2, Long(TITLE_LENGTH + 1),
                                Long(DESCRIPTION_LENGTH + 1), Long(TYPE_LENGTH + 1))>>),
      Obj([meta |-> Obj([slug |-> Txt(<<"d">>)])]) }

\* a series of the panel data: meta.custom.panelId is a sequence of no or
\* one number
Frame(panelId, fields) ==
    [hasMeta |-> TRUE, hasFields |-> TRUE, panelId |-> panelId, fields |-> fields]
Field(name, type, n) == [name |-> name, type |-> type, values |-> [i \in 1..n |-> i]]

TimeField == Field(<<"t", "i", "m", "e">>, <<"t", "i", "m", "e">>, 3)

\* the data of the panel: none, one series, series of a panel that is not on
\* the dashboard, without meta and without panelId, one series more than
\* SERIES_LIMIT, a series that exceeds every limit by one, and a series of
\* the panel of the chat
PanelDatas ==
    { [series |-> <<>>],
      [series |-> <<Frame(<<2>>, <<TimeField>>)>>],
      [series |-> <<Frame(<<3>>, <<TimeField>>),
                    Frame(<<9>>, <<TimeField>>),
                    [hasMeta |-> FALSE, hasFields |-> TRUE, panelId |-> <<>>,
                     fields |-> <<TimeField>>],
                    Frame(<<>>, <<TimeField>>)>>],
      [series |-> [i \in 1..(SERIES_LIMIT + 1) |-> Frame(<<2>>, <<TimeField>>)]],
      [series |-> <<Frame(<<2>>, [j \in 1..(FIELDS_LIMIT + 1) |->
                                    Field(Long(TITLE_LENGTH + 1), Long(TYPE_LENGTH + 1),
                                          VALUES_LIMIT + 1)])>>],
      [series |-> <<Frame(<<1>>, <<TimeField>>), Frame(<<2>>, <<TimeField>>)>>] }

\* the id of the panel that hosts the chat
PanelIds == {1, 2}

\* extractAndEnrichData runs on the fetched dashboard
ExtractAndEnrich ==
    /\ enr.stage = "fetched"
    /\ enr' = [enr EXCEPT !.stage = "enriched",
                          !.via = "extractAndEnrichData",
                          !.result = extractAndEnrichData(enr.dashboard, enr.id, enr.data)]
    /\ UNCHANGED srvvars
    /\ UNCHANGED <<panel, san>>

\* extractPanelMetadata is applied to the dashboard as it is
ExtractMetadata ==
    /\ enr.stage = "fetched"
    /\ enr' = [enr EXCEPT !.stage = "metadata",
                          !.metadata = extractPanelMetadata(enr.dashboard, enr.id)]
    /\ UNCHANGED srvvars
    /\ UNCHANGED <<panel, san>>

\* enrichPanelData is applied to the data and the extracted metadata
EnrichData ==
    /\ enr.stage = "metadata"
    /\ enr' = [enr EXCEPT !.stage = "enriched",
                          !.via = "enrichPanelData",
                          !.result = enrichPanelData(enr.data, enr.metadata)]
    /\ UNCHANGED srvvars
    /\ UNCHANGED <<panel, san>>

\* no panel is mounted
NoPanel == [component |-> "none"]

\* no string is being sanitized
NoSan == [stage |-> "none"]

\* nothing is being enriched
NoEnr == [stage |-> "none"]

\* ------------------------------------------------------------------------
\* Specifications
\* ------------------------------------------------------------------------

InitLimiter ==
    /\ now = 0
    /\ mu = NoOwner
    /\ requests = NewRateLimiter
    /\ pc = [p \in Procs |-> "idle"]
    /\ call = [p \in Procs |-> NoClient]
    /\ loc = [p \in Procs |-> [now |-> 0, valid |-> <<>>]]
    /\ ret = [p \in Procs |-> FALSE]
    /\ admitLog = [k \in ClientIDs |-> <<>>]
    /\ apiKey = ""
    /\ cur = NoRequest
    /\ serving = TRUE
    /\ reqLog = [k \in ClientIDs |-> <<>>]
    /\ panel = NoPanel
    /\ san = NoSan
    /\ enr = NoEnr

NextLimiter ==
    \/ \E p \in Procs, k \in ClientIDs : LockAndFilter(p, k, TestTimeWindow)
    \/ \E p \in Procs : CheckAndAppend(p, TestMaxRequests)
    \/ \E p \in Procs : Return(p)
    \/ Tick(1, MaxTime)

SpecLimiter == InitLimiter /\ [][NextLimiter]_rlvars

\* the limiter under calls of isAllowed and of reset
NextReset ==
    \/ \E p \in Procs, k \in ClientIDs : LockAndFilter(p, k, TestTimeWindow)
    \/ \E p \in Procs : CheckAndAppend(p, TestMaxRequests)
    \/ \E p \in Procs : Return(p)
    \/ \E p \in Procs : Reset(p)
    \/ \E p \in Procs : ResetReturn(p)
    \/ Tick(1, ResetTime)

SpecReset == InitLimiter /\ [][NextReset]_vars

\* the process after start-up: an empty global limiter, no request yet
InitGateway ==
    /\ now = 0
    /\ mu = NoOwner
    /\ requests = NewRateLimiter
    /\ pc = [p \in Procs |-> "idle"]
    /\ call = [p \in Procs |-> NoClient]
    /\ loc = [p \in Procs |-> [now |-> 0, valid |-> <<>>]]
    /\ ret = [p \in Procs |-> FALSE]
    /\ admitLog = [k \in ClientIDs |-> <<>>]
    /\ apiKey \in Credentials
    /\ cur = NoRequest
    /\ serving = TRUE
    /\ reqLog = [k \in ClientIDs |-> <<>>]
    /\ panel = NoPanel
    /\ san = NoSan
    /\ enr = NoEnr

\* the gateway under requests of every method and content type
Next ==
    \/ \E r \in MainRequests :
          handleGroqChat(r) /\ UNCHANGED reqLog
    \/ \E reply \in UpstreamReplies : UpstreamReturn(reply)
    \/ \E v \in Credentials : Setenv(v)
    \/ Tick(Minute, GatewayTicks * Minute)

Spec == InitGateway /\ [][Next]_vars

\* the gateway under POST requests of one client with every body
NextValidator ==
    \/ \E r \in ValidatorRequests :
          handleGroqChat(r) /\ UNCHANGED reqLog
    \/ \E reply \in UpstreamReplies : UpstreamReturn(reply)
    \/ \E v \in Credentials : Setenv(v)
    \/ Tick(Minute, GatewayTicks * Minute)

SpecValidator == InitGateway /\ [][NextValidator]_vars

\* the gateway under requests that violate several constraints at once
NextOrder ==
    \/ \E r \in OrderRequests :
          handleGroqChat(r) /\ UNCHANGED reqLog
    \/ \E reply \in UpstreamReplies : UpstreamReturn(reply)
    \/ \E v \in Credentials : Setenv(v)
    \/ Tick(Minute, GatewayTicks * Minute)

SpecOrder == InitGateway /\ [][NextOrder]_vars

\* the gateway with the timing of its upstream call: a request arrives while
\* its Timeout still expires within the horizon of the clock, the upstream
\* may answer or never answer, and the caller may disconnect
NextInFlight ==
    \/ \E r \in InFlightRequests :
          /\ now + UpstreamTimeout <= InFlightTicks * UpstreamTimeout
          /\ handleGroqChat(r)
          /\ UNCHANGED reqLog
    \/ \E reply \in UpstreamReplies : UpstreamReturn(reply)
    \/ ClientTimeout
    \/ Disconnect
    \/ TickInFlight(UpstreamTimeout, InFlightTicks * UpstreamTimeout)

\* time passes and an expired Timeout fires; the upstream and the caller
\* are under no obligation
SpecInFlight ==
    /\ InitGateway
    /\ [][NextInFlight]_vars
    /\ WF_vars(TickInFlight(UpstreamTimeout, InFlightTicks * UpstreamTimeout))
    /\ WF_vars(ClientTimeout)

\* the server side while only the panel is observed
InitServer ==
    /\ now = 0
    /\ mu = NoOwner
    /\ requests = NewRateLimiter
    /\ pc = [p \in Procs |-> "idle"]
    /\ call = [p \in Procs |-> NoClient]
    /\ loc = [p \in Procs |-> [now |-> 0, valid |-> <<>>]]
    /\ ret = [p \in Procs |-> FALSE]
    /\ admitLog = [k \in ClientIDs |-> <<>>]
    /\ apiKey = "gsk-secret"
    /\ cur = NoRequest
    /\ serving = TRUE
    /\ reqLog = [k \in ClientIDs |-> <<>>]

\* a ChatbotPanel has been mounted on a dashboard
InitChatbot ==
    /\ InitServer
    /\ \E uid \in DashboardUIDs : panel = NewChatbotPanel(uid)
    /\ san = NoSan
    /\ enr = NoEnr

\* the ChatbotPanel under its user and the settling of its promises
NextChatbot ==
    \/ \E v \in InputValues : Type(v)
    \/ \E via \in {"click", "enter"} : submitQuestion(via, MaxSubmits, MaxTasks)
    \/ \E i \in 1..MaxTasks, ok \in BOOLEAN : EnrichSettles(i, ok)
    \/ \E i \in 1..MaxTasks, ok \in BOOLEAN : ProxySettles(i, ok)

SpecChatbot == InitChatbot /\ [][NextChatbot]_vars

\* a ChatbotPanel has been mounted on the dashboard of the tests
InitTeardown ==
    /\ InitServer
    /\ panel = NewChatbotPanel(Str(<<"v", "a", "l", "i", "d", "_", "u", "i", "d",
                                     "-", "1", "2", "3">>))
    /\ san = NoSan
    /\ enr = NoEnr

\* the ChatbotPanel under its user, the settling of its promises and its
\* removal from the dashboard
NextTeardown ==
    \/ \E v \in InputValues : Type(v)
    \/ \E via \in {"click", "enter"} : submitQuestion(via, MaxSubmits, MaxTasks)
    \/ \E i \in 1..MaxTasks, ok \in BOOLEAN : EnrichSettles(i, ok)
    \/ \E i \in 1..MaxTasks, ok \in BOOLEAN : ProxySettles(i, ok)
    \/ Unmount

SpecTeardown == InitTeardown /\ [][NextTeardown]_vars

\* the panel that module.ts registers has been mounted on a dashboard
InitSimple ==
    /\ InitServer
    /\ \E uid \in SimpleUIDs : panel = NewSimplePanel(uid)
    /\ san = NoSan
    /\ enr = NoEnr

\* the SimplePanel under its user, its data and the settling of its promises
NextSimple ==
    \/ \E v \in SimpleInputs : SimpleType(v)
    \/ simpleSubmitQuestion(MaxSubmits, MaxTasks, MaxFetches)
    \/ SimpleEffect(MaxFetches)
    \/ \E i \in 1..MaxTasks, ok \in BOOLEAN : SimpleSettles(i, ok)

SpecSimple == InitSimple /\ [][NextSimple]_vars

\* a string is at hand for one of the two sanitizers
InitSanitizer ==
    /\ InitServer
    /\ panel = NoPanel
    /\ \E pass \in {"dashboard", "message"} :
         \E x \in IF pass = "dashboard" THEN DashboardStrings ELSE MessageStrings :
            san = [stage |-> "input", pass |-> pass, input |-> x,
                   once |-> <<>>, twice |-> <<>>]
    /\ enr = NoEnr

NextSanitizer ==
    \/ Sanitize("dashboard")
    \/ Sanitize("message")

SpecSanitizer == InitSanitizer /\ [][NextSanitizer]_vars

\* a dashboard has been fetched for a panel with data
InitEnrich ==
    /\ InitServer
    /\ panel = NoPanel
    /\ san = NoSan
    /\ \E d \in Dashboards, id \in PanelIds, data \in PanelDatas :
         enr = [stage |-> "fetched", dashboard |-> d, id |-> id, data |-> data,
                metadata |-> <<>>, result |-> <<>>, via |-> ""]

NextEnrich ==
    \/ ExtractAndEnrich
    \/ ExtractMetadata
    \/ EnrichData

SpecEnrich == InitEnrich /\ [][NextEnrich]_vars

\* the gateway under a burst of requests of one client, with the instants of
\* its requests recorded
NextBurst ==
    \/ \E r \in BurstRequests :
          handleAndLog(r, MaxBurst)
    \/ \E reply \in UpstreamReplies : UpstreamReturn(reply)
    \/ Tick(Minute \div 2, BurstTicks * (Minute \div 2))

SpecBurst == InitGateway /\ [][NextBurst]_vars

RECURSIVE Retained(_, _)
\* the number of instants in the records of the keys S
Retained(reqs, S) ==
    IF S = {} THEN 0
    ELSE LET k == CHOOSE x \in S : TRUE
         IN Len(reqs[k]) + Retained(reqs, S \ {k})

\* the gateway under requests of several clients, as long as the limiter
\* retains fewer than MaxRetained instants
NextClients ==
    \/ \E r \in ClientRequests :
          /\ Retained(requests, DOMAIN requests) < MaxRetained
          /\ handleGroqChat(r)
          /\ UNCHANGED reqLog
    \/ \E reply \in UpstreamReplies : UpstreamReturn(reply)
    \/ Tick(Minute, GatewayTicks * Minute)

SpecClients == InitGateway /\ [][NextClients]_vars

\* ------------------------------------------------------------------------
\* Properties of the RateLimiter (specification SpecLimiter)
\* ------------------------------------------------------------------------

\* number of instants of log in the window (t - timeWindow, t]
InWindow(log, t, timeWindow) ==
    Cardinality({i \in 1..Len(log) : log[i] > t - timeWindow /\ log[i] <= t})

\* C1: a call of isAllowed(k, N, W) is admitted exactly when fewer than N
\* previously admitted calls of k have not yet aged out of the window ending
\* at the call's time.
C1_AdmittedIffBelowQuota ==
    [][\A p \in Procs :
          (pc[p] = "locked" /\ pc'[p] = "returned")
             => (ret'[p] <=>
                   NotAgedOut(admitLog[call[p]], loc[p].now, TestTimeWindow)
                      < TestMaxRequests)]_rlvars

\* C1 witness: the (N+1)th call of a key was rejected and a later call of the
\* same key was admitted once the oldest admitted instant had aged out.
C1_Witness ==
    \E p, q \in Procs :
        /\ pc[p] = "returned" /\ pc[q] = "returned"
        /\ call[p] = call[q]
        /\ ~ret[q] /\ ret[p]
        /\ loc[p].now > loc[q].now
        /\ Len(admitLog[call[p]]) = TestMaxRequests + 1

\* C2: under any interleaving of concurrent calls, for every key the number
\* of admitted calls in any trailing window never exceeds maxRequests, and no
\* call has been rejected while fewer than maxRequests admitted instants of
\* its key lay in its window.
C2_NoOverNoUnderCount ==
    /\ \A k \in ClientIDs : \A t \in 0..MaxTime :
          InWindow(admitLog[k], t, TestTimeWindow) <= TestMaxRequests
    /\ \A p \in Procs :
          (pc[p] = "returned" /\ ~ret[p])
             => InWindow(admitLog[call[p]], loc[p].now, TestTimeWindow)
                   >= TestMaxRequests

\* C2 witness: a goroutine is inside the critical section at capacity for a
\* key at the very instant another goroutine was admitted for the same key.
C2_Witness ==
    \E p, q \in Procs :
        /\ p # q
        /\ pc[p] = "locked" /\ mu = p
        /\ pc[q] = "returned" /\ ret[q]
        /\ call[p] = call[q]
        /\ loc[p].now = loc[q].now
        /\ Len(loc[p].valid) = TestMaxRequests

\* C3: a rejected call leaves the limiter state unchanged: nothing is
\* appended and no record of any key is created, pruned or rewritten.
C3_RejectionLeavesStateUnchanged ==
    [][\A p \in Procs :
          (pc[p] = "locked" /\ pc'[p] = "returned" /\ ~ret'[p])
             => requests' = requests]_rlvars

\* C3 witness: two attempts of the same key have been rejected at different
\* instants while the earlier admitted instants are still the whole record.
C3_Witness ==
    \E p, q \in Procs :
        /\ p # q
        /\ pc[p] = "returned" /\ pc[q] = "returned"
        /\ ~ret[p] /\ ~ret[q]
        /\ call[p] = call[q]
        /\ loc[p].now < loc[q].now
        /\ Len(Lookup(requests, call[p])) = TestMaxRequests

\* ------------------------------------------------------------------------
\* Properties of the gateway
\* ------------------------------------------------------------------------

RECURSIVE CharCount(_)
\* number of characters of a string
CharCount(s) == IF s = <<>> THEN 0 ELSE s[1].n + CharCount(Tail(s))

RECURSIVE NumMessages(_)
\* number of messages of a list of runs
NumMessages(msgs) == IF msgs = <<>> THEN 0 ELSE msgs[1].n + NumMessages(Tail(msgs))

\* non-empty, at most 50 characters, only letters, digits, hyphen and dot
WellFormedModel(m) ==
    /\ CharCount(m) >= 1
    /\ CharCount(m) <= 50
    /\ \A i \in 1..Len(m) : m[i].ch \in Letters \cup Digits \cup {"-", "."}

\* every message has content of at most 10000 and one of the three roles
WellFormedMessages(msgs) ==
    \A i \in 1..Len(msgs) :
        /\ CharCount(msgs[i].content) <= 10000
        /\ msgs[i].role \in {"user", "system", "assistant"}

\* the body satisfies every constraint of the validator
WellFormedBody(b) ==
    /\ b.kind = "json"
    /\ NumMessages(b.messages) <= 100
    /\ WellFormedModel(b.model)
    /\ WellFormedMessages(b.messages)

\* sub occurs in text as a run of consecutive words
Contains(text, sub) ==
    \E i \in 0..(Len(text) - Len(sub)) :
        \A j \in 1..Len(sub) : text[i + j] = sub[j]

Handled == cur.phase # "none"
IsPost == cur.req.method = "POST"
IsJson == cur.req.contentType = "application/json"

\* C4: an upstream call is issued only for a POST request of content type
\* application/json that the limiter admitted, with a non-empty credential
\* and a body that decoded and satisfies every validator constraint; every
\* rejection ends without an upstream call.
C4_UpstreamOnlyIfAllChecksPassed ==
    /\ cur.calls > 0 =>
          /\ IsPost /\ IsJson
          /\ cur.limited /\ cur.allowed
          /\ cur.cred # ""
          /\ WellFormedBody(cur.req.body)
    /\ (Handled /\ cur.status \in {400, 405, 429}) => cur.calls = 0
    /\ (Handled /\ cur.body = <<"Service", "configuration", "error">>) => cur.calls = 0

\* C4 witness: the upstream call of a request that passed every check is in
\* flight.
C4_Witness ==
    /\ cur.phase = "upstream"
    /\ cur.calls = 1
    /\ cur.req.body = GoodBody

\* C5: an otherwise valid, admitted POST request handled while GROQ_API_KEY
\* is empty is answered 500 with a body containing "configuration error",
\* no upstream call is made, and the process goes on serving.
C5_MissingCredentialIs500 ==
    (Handled /\ IsPost /\ IsJson /\ cur.allowed /\ cur.cred = ""
        /\ WellFormedBody(cur.req.body))
      => /\ cur.phase = "responded"
         /\ cur.status = 500
         /\ Contains(cur.body, <<"configuration", "error">>)
         /\ cur.calls = 0
         /\ serving

\* C5 witness: a valid request was admitted and answered 500 while the
\* credential was empty, and the credential has been configured since.
C5_Witness ==
    /\ Handled /\ IsPost /\ IsJson /\ cur.allowed /\ cur.cred = ""
    /\ cur.req.body = GoodBody
    /\ cur.status = 500
    /\ apiKey # ""

\* C6 as stated: a request whose client key has exhausted its quota is
\* answered 429 without an upstream call whatever its method, content type
\* or body.
C6_Original ==
    (Handled /\ cur.prior >= RateLimit) => (cur.status = 429 /\ cur.calls = 0)

\* C6 amended: the admit check runs after the method and content-type checks
\* and before the credential is read and the body is decoded: at exhausted
\* quota a non-POST request is answered 405, a POST of another content type
\* 400, and a POST application/json request 429 whatever its body and
\* whether or not the credential is configured; none causes an upstream call.
C6_LimiterAfterMethodAndContentType ==
    (Handled /\ cur.prior >= RateLimit) =>
        /\ cur.calls = 0
        /\ cur.phase = "responded"
        /\ ~IsPost => cur.status = 405
        /\ (IsPost /\ ~IsJson) =>
              (cur.status = 400 /\ cur.body = <<"Invalid", "Content-Type">>)
        /\ (IsPost /\ IsJson) =>
              (cur.status = 429 /\ cur.body = <<"Too", "many", "requests">>)

\* C6 witness: at exhausted quota a POST application/json request with an
\* undecodable body, handled without credential, was answered 429.
C6_Witness ==
    /\ Handled /\ IsPost /\ IsJson
    /\ cur.prior >= RateLimit
    /\ cur.cred = ""
    /\ cur.req.body = NoBody
    /\ cur.status = 429

\* C7 as stated: an admitted request that violates a validator constraint is
\* answered 400 whether or not the credential is configured.
C7_ValidatorBeforeCredential ==
    (Handled /\ cur.allowed /\ ~WellFormedBody(cur.req.body))
        => cur.status = 400

\* C8 as stated: whenever 11 requests carrying the same client key reach the
\* gateway within one 60-second window, the 11th is answered 429.
C8_Original ==
    LET log == reqLog[ClientIP(cur.req)]
    IN (Handled /\ Len(log) >= 11 /\ log[Len(log) - 10] > cur.at - Minute)
          => (cur.status = 429 /\ cur.calls = 0)

\* C8 amended: with the default policy, a POST application/json request that
\* arrives when 10 requests of its client key were admitted less than 60
\* seconds before it (the 11th of 11 such requests within one window on a
\* fresh record) is answered 429 and causes no upstream call.
C8_EleventhAdmissibleRequestIs429 ==
    (Handled /\ IsPost /\ IsJson /\ cur.prior >= 10)
        => (cur.phase = "responded" /\ cur.status = 429 /\ cur.calls = 0)

\* C8 witness: 11 POST requests of one client key arrived within one window,
\* not all at the same instant; the first 10 were admitted and the 11th was
\* answered 429.
C8_Witness ==
    LET log == reqLog[ClientIP(cur.req)]
    IN /\ Handled /\ IsPost /\ IsJson
       /\ Len(log) = 11
       /\ log[1] > cur.at - Minute
       /\ log[1] < cur.at
       /\ cur.prior = 10
       /\ cur.status = 429

\* C9: every request whose method is not POST is answered 405 at once,
\* before the limiter is asked or the credential read, and causes no
\* upstream call, whatever its content type, body and credential.
C9_NonPostIs405 ==
    (Handled /\ ~IsPost)
        => /\ cur.phase = "responded"
           /\ cur.status = 405
           /\ cur.body = <<"Method", "not", "allowed">>
           /\ cur.calls = 0
           /\ ~cur.limited

\* C9 witness: a GET request with content type application/json and a valid
\* body, handled with the credential configured, was answered 405.
C9_Witness ==
    /\ Handled /\ ~IsPost /\ IsJson
    /\ cur.req.body = GoodBody
    /\ cur.cred # ""
    /\ cur.status = 405

\* C10: for a decoded request with at most 100 messages the model name is
\* accepted if and only if it is non-empty, at most 50 characters long and
\* made of letters, digits, hyphen and dot; any other model name is rejected
\* with 400 "Invalid model name" and the request is not forwarded.
C10_ModelNameAcceptedIffWellFormed ==
    (Handled /\ cur.allowed /\ cur.cred # "" /\ cur.req.body.kind = "json"
        /\ NumMessages(cur.req.body.messages) <= 100)
      => IF WellFormedModel(cur.req.body.model)
            THEN cur.body # <<"Invalid", "model", "name">>
            ELSE /\ cur.status = 400
                 /\ cur.body = <<"Invalid", "model", "name">>
                 /\ cur.calls = 0
                 /\ cur.phase = "responded"

\* C10 witness: a request whose model name has exactly 50 permitted
\* characters has been forwarded.
C10_Witness ==
    /\ cur.req.body.model = Rep("a", 50)
    /\ cur.calls = 1

\* the request reached the decoder: the limiter admitted it and a credential
\* was configured
ReachedDecoder == Handled /\ cur.allowed /\ cur.cred # ""

\* the request reached the loop over the messages
ReachedMessages ==
    /\ ReachedDecoder
    /\ cur.body \notin { <<"Invalid", "request", "body">>,
                         <<"Too", "many", "messages", "in", "conversation">>,
                         <<"Invalid", "model", "name">> }

\* message i of the request passes both of its checks; a unit of content
\* length is a byte of the content
MessagePasses(m) ==
    /\ ByteLen(m.content) <= 10000
    /\ m.role \in {"user", "system", "assistant"}

\* C11: for a request that passed the earlier checks, a message whose
\* content has exactly 10000 units is accepted and one of 10001 or more
\* units is rejected with 400 "Message content too long"; the request is
\* rejected for that reason exactly when the first message that fails a
\* check has content longer than 10000, whatever the content is made of.
C11_ContentCapIsInclusive ==
    ReachedMessages =>
        LET msgs == cur.req.body.messages
            tooLong == \E i \in 1..Len(msgs) :
                          /\ ByteLen(msgs[i].content) >= 10001
                          /\ \A j \in 1..(i - 1) : MessagePasses(msgs[j])
        IN /\ tooLong <=> cur.body = <<"Message", "content", "too", "long">>
           /\ tooLong => (cur.status = 400 /\ cur.calls = 0)

\* C11 witness: a request whose first message has content of exactly 10000
\* units has been forwarded.
C11_Witness ==
    /\ ReachedMessages
    /\ cur.req.body.messages[1].content = Rep("a", 10000)
    /\ cur.calls = 1

\* the request passed the decoder
Decoded == ReachedDecoder /\ cur.body # <<"Invalid", "request", "body">>

\* C12: a decoded request with at most 100 messages is never rejected for
\* its message count, and one with 101 or more messages is always rejected
\* with 400 "Too many messages" and not forwarded, whatever its model name
\* and its messages contain.
C12_MessageCountCapIsInclusive ==
    Decoded =>
        IF NumMessages(cur.req.body.messages) >= 101
        THEN /\ cur.status = 400
             /\ Contains(cur.body, <<"Too", "many", "messages">>)
             /\ cur.calls = 0
             /\ cur.phase = "responded"
        ELSE ~Contains(cur.body, <<"Too", "many", "messages">>)

\* C12 witness: a request of exactly 100 messages has been forwarded.
C12_Witness ==
    /\ Decoded
    /\ NumMessages(cur.req.body.messages) = 100
    /\ cur.calls = 1

\* index of the first message that fails a check, 0 when every one passes
FirstBadMessage(msgs) ==
    IF \A i \in 1..Len(msgs) : MessagePasses(msgs[i]) THEN 0
    ELSE CHOOSE i \in 1..Len(msgs) :
            /\ ~MessagePasses(msgs[i])
            /\ \A j \in 1..(i - 1) : MessagePasses(msgs[j])

\* the rejection of the earliest violated validator check in the order
\* method, content type, body size and decoding, message count, model name,
\* messages in sequence with content length before role; status 0 when no
\* check is violated
EarliestViolation(r) ==
    LET b == r.body
        i == FirstBadMessage(b.messages)
    IN  IF r.method # "POST"
            THEN [status |-> 405, body |-> <<"Method", "not", "allowed">>]
        ELSE IF r.contentType # "application/json"
            THEN [status |-> 400, body |-> <<"Invalid", "Content-Type">>]
        ELSE IF b.kind # "json" \/ ValueBytes(b) > 1048576
            THEN [status |-> 400, body |-> <<"Invalid", "request", "body">>]
        ELSE IF NumMessages(b.messages) > 100
            THEN [status |-> 400,
                  body |-> <<"Too", "many", "messages", "in", "conversation">>]
        ELSE IF ~WellFormedModel(b.model)
            THEN [status |-> 400, body |-> <<"Invalid", "model", "name">>]
        ELSE IF i = 0
            THEN [status |-> 0, body |-> <<>>]
        ELSE IF ByteLen(b.messages[i].content) > 10000
            THEN [status |-> 400, body |-> <<"Message", "content", "too", "long">>]
        ELSE [status |-> 400, body |-> <<"Invalid", "message", "role">>]

\* the response is that of the rate limiter or of the credential check
RejectedOutsideValidator ==
    \/ cur.status = 429
    \/ cur.body = <<"Service", "configuration", "error">>

C14_OversizedBodyIs400 ==
    (ReachedDecoder /\ BodyBytes(cur.req.body) > 1048576) =>
        /\ cur.status = 400
        /\ cur.body = <<"Invalid", "request", "body">>
        /\ cur.calls = 0

\* the upstream call of the request is over and the response is written
Relayed == cur.phase = "responded" /\ cur.reply.kind # "none"

\* C15: when a request passes every check and the upstream answers it with
\* the success status 200, the gateway answers 200 with a body identical to
\* the upstream body and the content type application/json.
C15_SuccessIsRelayedVerbatim ==
    (Relayed /\ cur.reply.kind = "response" /\ cur.reply.status = 200) =>
        /\ cur.calls = 1
        /\ cur.status = 200
        /\ cur.body = cur.reply.body
        /\ cur.contentType = "application/json"

\* C15 witness: an upstream answer of status 200 with a non-empty body has
\* been relayed.
C15_Witness ==
    /\ Relayed
    /\ cur.reply = [kind |-> "response", status |-> 200, body |-> <<"choices">>]
    /\ cur.status = 200

\* C16: when the upstream answers with a status other than success, the
\* gateway answers 502 with the generic message "External API error
\* occurred", the same for every such answer, and no part of the upstream
\* body occurs in the response.
C16_UpstreamErrorIsGeneric502 ==
    (Relayed /\ cur.reply.kind = "response" /\ cur.reply.status # 200) =>
        /\ cur.status = 502
        /\ cur.body = <<"External", "API", "error", "occurred">>
        /\ \A i \in 1..Len(cur.body), j \in 1..Len(cur.reply.body) :
              cur.body[i] # cur.reply.body[j]

\* C16 witness: an upstream answer of status 429 with a body of its own has
\* been answered 502.
C16_Witness ==
    /\ Relayed
    /\ cur.reply.kind = "response"
    /\ cur.reply.status = 429
    /\ cur.reply.body # <<>>
    /\ cur.status = 502

\* C17: when the upstream call fails at the transport level or times out,
\* the gateway answers 502, the status it gives for a non-success upstream
\* status.
C17_TransportFailureIs502 ==
    (Relayed /\ cur.reply.kind \in {"transport", "timeout"}) => cur.status = 502

\* C18: each inbound request causes at most one upstream call; once that
\* call has failed or answered, the response is written and no second call
\* is issued for the request.
C18_AtMostOneUpstreamCall ==
    /\ cur.calls <= 1
    /\ cur.reply.kind # "none" => (cur.phase = "responded" /\ cur.calls = 1)

\* C18 witness: the one upstream call of a request has failed at the
\* transport level and the request has been answered.
C18_Witness ==
    /\ Relayed
    /\ cur.reply.kind = "transport"
    /\ cur.calls = 1
    /\ cur.status >= 500

\* C19: every inbound request receives exactly one response, whose status is
\* one of 200, 400, 405, 429, 500 and 502; an upstream call is never pending
\* for more than 30 seconds, and a request whose upstream call is in flight
\* is eventually answered: when the upstream never answers, the timeout ends
\* the call and the request is answered with a failure status.
C19_EveryRequestIsAnswered ==
    /\ [](Handled =>
            /\ cur.writes = (IF cur.phase = "responded" THEN 1 ELSE 0)
            /\ cur.phase = "responded" =>
                   cur.status \in {200, 400, 405, 429, 500, 502}
            /\ cur.phase = "upstream" => now <= cur.at + 30
            /\ cur.reply.kind \in {"timeout", "readtimeout"} =>
                   (cur.phase = "responded" /\ cur.status \in {500, 502}))
    /\ (cur.phase = "upstream") ~> (cur.phase = "responded")

\* C19 witness: the upstream did not answer for 30 seconds and the request
\* has been answered when its timeout expired.
C19_Witness ==
    /\ cur.phase = "responded"
    /\ cur.reply.kind = "timeout"
    /\ now = cur.at + 30
    /\ cur.writes = 1

\* C20: once the caller of a request has disconnected, the upstream call of
\* that request is no longer in flight.
C20_DisconnectCancelsUpstream ==
    cur.cancelled => cur.phase # "upstream"

\* the response of each rejecting check of the gateway, by the path taken
ErrorResponse(check) ==
    CASE check = "MethodNotAllowed"   -> [status |-> 405, body |-> <<"Method", "not", "allowed">>]
      [] check = "InvalidContentType" -> [status |-> 400, body |-> <<"Invalid", "Content-Type">>]
      [] check = "TooManyRequests"    -> [status |-> 429, body |-> <<"Too", "many", "requests">>]
      [] check = "ConfigError"        -> [status |-> 500, body |-> <<"Service", "configuration", "error">>]
      [] check = "InvalidBody"        -> [status |-> 400, body |-> <<"Invalid", "request", "body">>]
      [] check = "TooManyMessages"    -> [status |-> 400, body |-> <<"Too", "many", "messages", "in", "conversation">>]
      [] check = "InvalidModel"       -> [status |-> 400, body |-> <<"Invalid", "model", "name">>]
      [] check = "ContentTooLong"     -> [status |-> 400, body |-> <<"Message", "content", "too", "long">>]
      [] check = "InvalidRole"        -> [status |-> 400, body |-> <<"Invalid", "message", "role">>]
      [] check = "TransportError"     -> [status |-> 500, body |-> <<"Failed", "to", "call", "Groq", "API">>]
      [] check = "ReadError"          -> [status |-> 500, body |-> <<"Failed", "to", "read", "response">>]
      [] check = "UpstreamStatus"     -> [status |-> 502, body |-> <<"External", "API", "error", "occurred">>]

\* C21: an error response depends on nothing but the check that rejected
\* the request: its status and body are those fixed for that check, whatever
\* model, messages, raw body, credential and upstream reply the request was
\* handled with, and no word of the credential or of the upstream reply
\* occurs in it.
C21_ErrorResponseDependsOnCheckOnly ==
    (cur.phase = "responded" /\ cur.check # "OK") =>
        /\ cur.status = ErrorResponse(cur.check).status
        /\ cur.body = ErrorResponse(cur.check).body
        /\ \A i \in 1..Len(cur.body) :
              /\ cur.body[i] # cur.cred
              /\ \A j \in 1..Len(cur.reply.body) : cur.body[i] # cur.reply.body[j]

\* C21 witness: a request whose model name holds markup has been rejected
\* for its model name while a credential was configured.
C21_Witness ==
    /\ cur.phase = "responded"
    /\ cur.check = "InvalidModel"
    /\ cur.req.body.model = Rep("<", 1) \o Rep("b", 1) \o Rep(">", 1)
    /\ cur.cred = "gsk-secret"
    /\ cur.status = 400

\* ------------------------------------------------------------------------
\* Properties of the panel
\* ------------------------------------------------------------------------

\* C22: whenever the panel has sent a conversation, it has sent it to the
\* resource of the gateway and to nothing else, the call carried no
\* credential, and the panel has no option that holds an API key: the
\* provider is never called from the browser.
C22_CredentialOnlyOnServer ==
    panel.proxyCalls > 0 =>
        /\ panel.lastCall.url = ProxyURL
        /\ panel.lastCall.auth = ""
        /\ "groqApiKey" \notin DOMAIN panel.options

\* a submission of a non-blank text: one call of submitQuestion that passed
\* its first return
Submits == panel.component = "ChatbotPanel" /\ panel'.submits = panel.submits + 1

\* the first turn: a submission, of a text within the length limit, to an
\* empty conversation
FirstTurn ==
    /\ Submits
    /\ Len(panel.chat) = 0
    /\ Utf16Len(panel.input.text) <= 10000

\* the dashboard id is not empty and made of letters, digits, hyphen and
\* underscore only
IdentifierOnly(uid) ==
    /\ uid # <<>>
    /\ \A i \in 1..Len(uid) : uid[i].ch \in Letters \cup Digits \cup {"-", "_"}

\* C23: a first turn on a dashboard whose id is empty or has a character
\* outside letters, digits, hyphen and underscore fetches nothing, calls
\* the proxy for nothing, leaves no promise pending and shows "Failed to
\* process your question. Please try again."; a first turn on a dashboard
\* with a valid id fetches the dashboard endpoint for exactly that id.
C23_InvalidIdAbortsBeforeAnyCall ==
    [][FirstTurn =>
          IF IdentifierOnly(panel.uid)
          THEN /\ panel'.fetches = Append(panel.fetches, panel.uid)
               /\ panel'.proxyCalls = panel.proxyCalls
          ELSE /\ panel'.fetches = panel.fetches
               /\ panel'.proxyCalls = panel.proxyCalls
               /\ panel'.tasks = panel.tasks
               /\ panel'.chat = <<FailedMessage>>]_vars

\* C23 witness: the first turn on the dashboard "uid with spaces" has ended
\* with the failure message and without a fetch.
C23_Witness ==
    /\ panel.component = "ChatbotPanel"
    /\ panel.uid = Str(<<"u", "i", "d", " ", "w", "i", "t", "h", " ",
                         "s", "p", "a", "c", "e", "s">>)
    /\ panel.submits = 1
    /\ panel.chat = <<FailedMessage>>
    /\ panel.fetches = <<>>
    /\ panel.proxyCalls = 0

\* C24: at most one submission is in flight: while a call of submitQuestion
\* waits for the dashboard or for the proxy, no other call is waiting too.
C24_AtMostOneSubmissionInFlight ==
    panel.component = "ChatbotPanel" => Len(panel.tasks) <= 1

\* C25: in one conversation the dashboard endpoint is fetched at most once,
\* and no submission has called the proxy more than once.
C25_DashboardFetchedAtMostOnce ==
    panel.component # "none" =>
        /\ Len(panel.fetches) <= 1
        /\ \A i \in 1..Len(panel.tasks) : panel.tasks[i].calls <= 1

\* C26: every payload sent to the proxy starts with the system message of
\* the enrichment, and the payload of a turn to a conversation that is not
\* empty is that conversation, unchanged, followed by the new user message.
C26_PayloadStartsWithSystemMessage ==
    /\ (panel.component = "ChatbotPanel" /\ panel.proxyCalls > 0) =>
            panel.lastCall.messages[1] = SystemMessage
    /\ \A i \in 1..Len(panel.tasks) :
            panel.tasks[i].stage = "proxy" =>
                panel.tasks[i].payload[1] = SystemMessage

\* the component is idle: no call of submitQuestion is waiting and
\* submission is enabled
Idle ==
    /\ panel.component = "ChatbotPanel"
    /\ panel.tasks = <<>>
    /\ ~panel.isLoading

\* the payload that a submission of the input value v sends from a
\* conversation that is not empty
RetryPayload(v) ==
    validateMessages(panel.chat \o <<[role |-> "user", content |-> v.text, n |-> 1]>>)

\* C27: after a failure the conversation stays usable: whenever the
\* component is idle with a conversation under way, there is a text whose
\* submission is sent to the proxy and which the gateway can accept.
C27_RetryCanSucceed ==
    (Idle /\ Len(panel.chat) > 0) =>
        \E v \in InputValues :
            /\ v.text # <<>>
            /\ ~MessageTooLong(v.text)
            /\ GatewayAccepts(RetryPayload(v))

\* C28: a submission of a text of more than 10,000 characters fetches
\* nothing, calls the proxy for nothing, leaves no promise pending and
\* shows "Your message is too long"; a submission of a text of exactly
\* 10,000 characters is not answered with that message.
C28_OverlongMessageIsNeverSent ==
    [][Submits =>
          /\ Utf16Len(panel.input.text) > 10000 =>
                /\ panel'.fetches = panel.fetches
                /\ panel'.proxyCalls = panel.proxyCalls
                /\ panel'.tasks = panel.tasks
                /\ panel'.chat = Append(panel.chat, TooLongMessage)
          /\ Utf16Len(panel.input.text) = 10000 =>
                panel'.chat # Append(panel.chat, TooLongMessage)]_vars

\* C28 witness: a text of 10,001 characters has been refused without any
\* call, and a text of exactly 10,000 characters has then been sent.
C28_Witness ==
    /\ panel.component = "ChatbotPanel"
    /\ panel.submits = 2
    /\ panel.fetches = <<>>
    /\ panel.proxyCalls = 1
    /\ panel.chat = <<TooLongMessage,
                      [role |-> "user", content |-> Rep("a", 10000), n |-> 1]>>
    /\ panel.lastCall.messages = panel.chat

\* ------------------------------------------------------------------------
\* Properties of the sanitizers
\* ------------------------------------------------------------------------

\* C29: sanitizing is idempotent: for both sanitizers, the result of
\* sanitizing a sanitized string is that string.
C29_SanitizeIsIdempotent ==
    san.stage = "twice" => san.twice = san.once

RECURSIVE Expand(_)
\* the characters of a string given as runs
Expand(s) ==
    IF s = <<>> THEN <<>>
    ELSE [i \in 1..s[1].n |-> s[1].ch] \o Expand(Tail(s))

\* the names of the active elements
TagNames ==
    { <<"s", "c", "r", "i", "p", "t">>, <<"o", "b", "j", "e", "c", "t">>,
      <<"i", "f", "r", "a", "m", "e">>, <<"e", "m", "b", "e", "d">> }

\* the element, carried as one unit of a message content, of a name
ElementOf(w) ==
    CASE w = <<"s", "c", "r", "i", "p", "t">> -> "<script>alert(1)</script>"
      [] w = <<"o", "b", "j", "e", "c", "t">> -> "<object data=x></object>"
      [] w = <<"i", "f", "r", "a", "m", "e">> -> "<iframe src=x></iframe>"
      [] OTHER -> "<embed src=x>"

\* the input at hand contains a tag of the name w
InputHasTag(w) ==
    IF san.pass = "dashboard"
    THEN \E i \in 1..Len(san.input) :
            /\ LiteralAt(san.input, i, <<"<">> \o w)
            /\ IndexOf(san.input, i, <<">">>) # 0
    ELSE \E k \in 1..Len(san.input) : san.input[k].ch = ElementOf(w)

\* the characters of the sanitized output
SanitizedOutput ==
    IF san.pass = "dashboard" THEN san.once ELSE Expand(san.once)

\* C30: when the input contains a script, object, iframe or embed tag, the
\* output of the sanitizer contains the name of that tag nowhere.
C30_NoActiveTagNameInOutput ==
    san.stage \in {"once", "twice"} =>
        \A w \in TagNames :
            InputHasTag(w) => IndexOf(SanitizedOutput, 1, w) = 0

\* ------------------------------------------------------------------------
\* Properties of the enrichment
\* ------------------------------------------------------------------------

\* C31: the enrichment result is bounded: at most 10 summaries, each with a
\* title of at most 100, a description of at most 500 and a type of at most
\* 50 characters and with at most 20 fields, each of at most 100 values.
C31_EnrichmentIsBounded ==
    enr.stage = "enriched" =>
        /\ Len(enr.result) <= 10
        /\ \A i \in 1..Len(enr.result) :
             /\ Len(enr.result[i].title) <= 100
             /\ Len(enr.result[i].description) <= 500
             /\ Len(enr.result[i].type) <= 50
             /\ Len(enr.result[i].data) <= 20
             /\ \A j \in 1..Len(enr.result[i].data) :
                  Len(enr.result[i].data[j].values) <= 100

\* C31 witness: a series of 21 fields of 101 values, on a dashboard whose
\* panel has texts of 101, 501 and 51 characters, has been enriched to a
\* summary at the limits.
C31_Witness ==
    /\ enr.stage = "enriched"
    /\ Len(enr.data.series) = 1
    /\ Len(enr.data.series[1].fields) = 21
    /\ Len(enr.result) = 1
    /\ Len(enr.result[1].title) = 100
    /\ Len(enr.result[1].description) = 500
    /\ Len(enr.result[1].type) = 50
    /\ Len(enr.result[1].data) = 20
    /\ Len(enr.result[1].data[1].values) = 100

\* the panels of the fetched dashboard
FetchedPanels ==
    IF HasPanels(enr.dashboard) THEN enr.dashboard.v["dashboard"].v["panels"].v
    ELSE <<>>

\* the series that have a summary, in the order of their summaries
SummarizedSeries ==
    SelectSeq(SubSeq(enr.data.series, 1,
                     IF Len(enr.data.series) < 10 THEN Len(enr.data.series) ELSE 10),
              LAMBDA f : f.hasMeta /\ f.hasFields)

\* the panel on the fetched dashboard that owns the series f
Owners(f) == {k \in 1..Len(FetchedPanels) : f.panelId = <<FetchedPanels[k].v["id"].v>>}

\* C32: the summary of a series carries the id, title, description and type
\* of the panel that owns it when that panel is on the fetched dashboard,
\* and is the "unknown" summary otherwise.
C32_SummaryCarriesOwnerMetadata ==
    enr.stage = "enriched" =>
        \A i \in 1..Len(enr.result) :
            LET f == SummarizedSeries[i]
                r == enr.result[i]
            IN IF Owners(f) # {}
               THEN \E k \in Owners(f) :
                      /\ r.id = FetchedPanels[k].v["id"].v
                      /\ r.title = Prefix(TextOr(FetchedPanels[k], "title"), 100)
                      /\ r.description = Prefix(TextOr(FetchedPanels[k], "description"), 500)
                      /\ r.type = Prefix(TextOr(FetchedPanels[k], "type"), 50)
               ELSE /\ r.id = 0
                    /\ r.type = <<"u", "n", "k", "n", "o", "w", "n">>

\* C33: no summary of the enrichment result has the id of the panel that
\* hosts the chat.
C33_HostPanelIsExcluded ==
    enr.stage = "enriched" =>
        \A i \in 1..Len(enr.result) : enr.result[i].id # enr.id

\* C33 witness: the panel of the chat is on the dashboard and has a series
\* of its own in the data, and the data has been enriched with the
\* extracted metadata.
C33_Witness ==
    /\ enr.stage = "enriched"
    /\ enr.via = "enrichPanelData"
    /\ \E k \in 1..Len(FetchedPanels) : FetchedPanels[k].v["id"].v = enr.id
    /\ \E i \in 1..Len(enr.data.series) : enr.data.series[i].panelId = <<enr.id>>
    /\ Len(enr.metadata) = 2
    /\ Len(enr.result) = 2

\* ------------------------------------------------------------------------
\* Further properties of the rate limiter and the gateway
\* ------------------------------------------------------------------------

\* C34: when a call of isAllowed on a key returns, admitted or rejected,
\* every instant retained in the record of that key lies after the cutoff of
\* that call: none is at or before the call's time minus the window.
C34_RetainedInstantsAreInWindow ==
    [][\A p \in Procs :
          (pc[p] = "locked" /\ pc'[p] = "returned") =>
              \A i \in 1..Len(Lookup(requests', call[p])) :
                  Lookup(requests', call[p])[i] > loc[p].now - TestTimeWindow]_vars

\* C34 witness: a call made one window after the first admission has
\* returned, admitted, and the record holds its instant only.
C34_Witness ==
    \E p \in Procs :
        /\ pc[p] = "returned"
        /\ ret[p]
        /\ loc[p].now = TestTimeWindow
        /\ admitLog[call[p]][1] = 0
        /\ Lookup(requests, call[p]) = <<TestTimeWindow>>

\* C35: reset clears all records, so that a call is rejected only after
\* maxRequests calls on its key have been admitted since the last reset,
\* whatever happened before it; and reset never runs between the start and
\* the end of a call of isAllowed.
C35_ResetClearsAllRecords ==
    [][\A p \in Procs :
          /\ (pc[p] = "idle" /\ pc'[p] = "reset") =>
                /\ \A k \in ClientIDs : Lookup(requests', k) = <<>>
                /\ \A q \in Procs : pc[q] # "locked"
          /\ (pc[p] = "locked" /\ pc'[p] = "returned" /\ ~ret'[p]) =>
                Len(admitLog[call[p]]) >= TestMaxRequests]_vars

\* C35 witness: within one instant a call on a key has been rejected, the
\* limiter has been reset, and the next call on that key has been admitted
\* as the first of a new record.
C35_Witness ==
    \E p, q \in Procs :
        /\ p # q
        /\ now = 0
        /\ call[p] = call[q]
        /\ pc[q] = "returned" /\ ~ret[q]
        /\ pc[p] = "returned" /\ ret[p]
        /\ Lookup(requests, call[p]) = <<0>>

\* the IP address of a connection address
HostOf(addr) ==
    CASE addr \in {"10.0.0.1:5001", "10.0.0.1:5002"} -> "10.0.0.1"
      [] OTHER -> addr

\* the instants of a record
Instants(rec) == {rec[i] : i \in 1..Len(rec)}

\* C36: the quota is per client IP: an admitted request is counted in the
\* record of its X-Forwarded-For value when it has one, and otherwise in the
\* record that every request from the same IP address without that header
\* is counted against, whatever its source port.
C36_QuotaIsPerClientIP ==
    (cur.phase # "none" /\ cur.allowed) =>
        IF cur.req.forwardedFor # ""
        THEN cur.at \in Instants(Lookup(requests, cur.req.forwardedFor))
        ELSE \A r \in ClientRequests :
                (r.forwardedFor = "" /\ HostOf(r.remoteAddr) = HostOf(cur.req.remoteAddr))
                    => cur.at \in Instants(Lookup(requests, ClientIP(r)))

\* a step of handleGroqChat up to its first response or the upstream call
HandlerStep == cur.phase # "upstream" /\ cur' # cur

\* the request handled by the step has been admitted by the limiter
AdmittedStep ==
    /\ HandlerStep
    /\ cur'.req.method = "POST"
    /\ cur'.req.contentType = "application/json"
    /\ cur'.status # 429

\* C37: the limiter changes exactly when a request is admitted: the record
\* of the key of an admitted request becomes its instants of the last
\* minute followed by the instant of the request, and no other record
\* changes; a request rejected for its method, its content type or its rate
\* changes nothing, and neither does anything that happens afterwards.
C37_LimiterChangesOnAdmissionOnly ==
    [][IF AdmittedStep
       THEN LET k == ClientIP(cur'.req)
            IN /\ requests'[k] =
                     Append(SelectSeq(Lookup(requests, k), LAMBDA t : t > now - 60), now)
               /\ \A j \in (DOMAIN requests') \ {k} :
                     j \in DOMAIN requests /\ requests'[j] = requests[j]
       ELSE requests' = requests]_vars

\* C37 witness: a request has been admitted and then rejected for its body,
\* its instant is the record of its key, and the record of another key
\* still holds its instants of a minute ago.
C37_Witness ==
    /\ cur.phase = "responded"
    /\ cur.check = "InvalidBody"
    /\ cur.req.remoteAddr = "10.0.0.1:5002"
    /\ cur.req.forwardedFor = ""
    /\ now = 60
    /\ Lookup(requests, "10.0.0.1:5002") = <<60>>
    /\ Lookup(requests, "10.0.0.2") = <<0, 0>>

\* C38: the body sent upstream has the model and the messages of the
\* request, in order and with their roles and contents, and no other field
\* of the inbound JSON; the credential is in the Authorization header, as a
\* bearer token, and nowhere else in the call.
C38_UpstreamBodyIsValidatedRequest ==
    cur.calls > 0 =>
        /\ DOMAIN cur.sent = {"url", "contentType", "authorization", "body"}
        /\ cur.sent.authorization = <<"Bearer ", cur.cred>>
        /\ DOMAIN cur.sent.body = {"model", "messages"}
        /\ cur.sent.body.model = cur.req.body.model
        /\ Len(cur.sent.body.messages) = Len(cur.req.body.messages)
        /\ \A i \in 1..Len(cur.sent.body.messages) :
             /\ DOMAIN cur.sent.body.messages[i] = {"role", "content", "n"}
             /\ cur.sent.body.messages[i].role = cur.req.body.messages[i].role
             /\ cur.sent.body.messages[i].content = cur.req.body.messages[i].content
             /\ cur.sent.body.messages[i].n = cur.req.body.messages[i].n

\* C38 witness: a request with fields of its own at the top and in its
\* messages has been forwarded.
C38_Witness ==
    /\ cur.calls > 0
    /\ "temperature" \in DOMAIN cur.req.body
    /\ "name" \in DOMAIN cur.req.body.messages[1]
    /\ cur.sent.url = "https://api.groq.com/openai/v1/chat/completions"
    /\ cur.cred = "gsk-secret"

\* C39: every message content that the panel sends to the proxy passes the
\* gateway's content-length check: no payload built by the panel is
\* answered with "Message content too long".
C39_PanelPayloadPassesLengthCheck ==
    /\ (panel.component = "ChatbotPanel" /\ panel.proxyCalls > 0) =>
            \A i \in 1..Len(panel.lastCall.messages) :
                ~ContentTooLong(panel.lastCall.messages[i].content)
    /\ \A i \in 1..Len(panel.tasks) :
            panel.tasks[i].stage = "proxy" =>
                \A j \in 1..Len(panel.tasks[i].payload) :
                    ~ContentTooLong(panel.tasks[i].payload[j].content)

\* the proxy call of a task settles in this step
ProxyCallResolves ==
    \E i \in 1..Len(panel.tasks) :
        /\ panel.tasks[i].stage = "proxy"
        /\ panel'.tasks = Without(panel.tasks, i)

\* C40: when the component is torn down every proxy call in flight is
\* cancelled through the controller of the ref; after the teardown no
\* outcome changes the conversation; when a call resolves the ref holds no
\* controller.
C40_TeardownCancelsCallInFlight ==
    [][/\ (panel.mounted /\ ~panel'.mounted) =>
              \A i \in 1..Len(panel'.tasks) :
                  panel'.tasks[i].stage = "proxy" =>
                      Cancelled(panel', panel'.tasks[i])
       /\ ~panel.mounted => panel'.chat = panel.chat
       /\ ProxyCallResolves => panel'.abortControllerRef = 0]_vars

====
